---- MODULE Spec2Model ----
(***************************************************************************)
(* Process-network analysis engine of BusinessProcessMermaidGenerator:     *)
(* analyse_network and analyze_process_patterns (analysis.py of the v2 and *)
(* v4 generators), get_process_complexity_score, and the causal-loop       *)
(* analyser (cld_analyzer.py).                                             *)
(*                                                                         *)
(* Python values are represented as follows.  A list is a sequence, a set  *)
(* a set, a dict a function whose DOMAIN is its key set; a dict that is    *)
(* iterated (the operation mapping) is the sequence of its values in       *)
(* insertion order, each value carrying its key as "name".  None is the    *)
(* empty tuple and a present value v the one-element tuple <<v>>.          *)
(***************************************************************************)
EXTENDS Integers, Sequences, FiniteSets, TLC

VARIABLES
    operations,       \* Dict[str, Operation], in insertion order
    choices,          \* Choices: the thresholds the caller supplies
    analysis_data,    \* result of analyse_network, or None
    causal_analysis,  \* the CausalAnalysis either mode returned, or None
    error,            \* the exception the last call raised, or None
    links,            \* List[CausalLink] handed to find_feedback_loops
    feedback_loops,   \* result of find_feedback_loops, or None
    counts,           \* the four counts read by get_process_complexity_score
    score,            \* result of get_process_complexity_score
    df,               \* the table handed to analyze_causal_links_from_dataframe
    stdout,           \* the warnings printed
    heap,             \* the list objects of the operations and of a returned AnalysisData
    engine,           \* the fields of a BusinessProcessEngine and its last call
    gui,              \* the v4 window: generation threads, temp_diagram.md, editor, preview
    call              \* the last call of a loader or engine function and its outcome, or None

vars == <<operations, choices, analysis_data, causal_analysis, error, links, feedback_loops,
          counts, score, df, stdout, heap, engine, gui, call>>

\* the variables of the engine, of the window, of the list objects and of
\* the calls
others == <<heap, engine, gui, call>>

----------------------------------------------------------------------------
(* Bounds of the model *)

\* number of operations a loaded sheet holds at most
MaxOps == 2

\* thresholds the caller may supply range over 0..MaxThreshold
MaxThreshold == 2

\* operation names found in the sheet: the k-th operation stored is OpNames[k]
OpNames == <<"A", "B", "C", "D", "E", "F">>

\* item names, in Python's string order
VarNames == <<"a", "b", "c">>

\* items occurring in the "Входы" and "Выход" cells of the sheet
Items == {"a", "b"}

----------------------------------------------------------------------------
(* Python helpers *)

None == << >>
Some(v) == <<v>>

\* no list object allocated yet
NoHeap == << >>

\* core_engine.py 25-28: BusinessProcessEngine.__init__; no call made yet
NewEngine ==
    [operations |-> None, analysis_data |-> None, causal_analysis |-> None]

\* the v4 window after construction: no generation started, nothing shown
NewGui ==
    [threads |-> << >>, events |-> << >>, file |-> None, editor |-> None,
     preview |-> None, crashed |-> FALSE]

Range(s) == {s[i] : i \in DOMAIN s}

\* list(set(xs)): the distinct elements of xs, in an order the build chooses
ListsOfSet(S) ==
    {s \in [1..Cardinality(S) -> S] : \A i, j \in 1..Cardinality(S) : s[i] = s[j] => i = j}

\* dict.get(key, [])
GetList(d, key) == IF key \in DOMAIN d THEN d[key] ELSE << >>

\* max of a non-empty list of integers
MaxOf(s) == CHOOSE m \in Range(s) : \A x \in Range(s) : x <= m

----------------------------------------------------------------------------
(* analysis.py: analyze_process_patterns *)

MergePoint(op) ==
    [operation |-> op.name, input_count |-> Len(op.inputs), inputs |-> op.inputs]

SplitPoint(op, output, input_to_operations) ==
    [output |-> output, source_operation |-> op.name,
     target_count |-> Len(input_to_operations[output]),
     targets |-> input_to_operations[output]]

\* the condition of line 20
IsMergeAlways(op) == TRUE
IsMerge(op) == Len(op.inputs) > 1

\* the condition of line 29
IsSplitAny(output, input_to_operations) == output \in DOMAIN input_to_operations
IsSplit(output, input_to_operations) ==
    output \in DOMAIN input_to_operations /\ Len(input_to_operations[output]) > 1

\* the inner loop over op.outputs, from index j on
RECURSIVE SplitPointsOfOp(_, _, _)
SplitPointsOfOp(op, j, input_to_operations) ==
    IF j > Len(op.outputs) THEN << >>
    ELSE (IF IsSplit(op.outputs[j], input_to_operations)
          THEN <<SplitPoint(op, op.outputs[j], input_to_operations)>>
          ELSE << >>)
         \o SplitPointsOfOp(op, j + 1, input_to_operations)

\* the loop over operations.items(), from index i on
RECURSIVE MergePointsFrom(_, _)
MergePointsFrom(ops, i) ==
    IF i > Len(ops) THEN << >>
    ELSE (IF IsMerge(ops[i]) THEN <<MergePoint(ops[i])>> ELSE << >>)
         \o MergePointsFrom(ops, i + 1)

RECURSIVE SplitPointsFrom(_, _, _)
SplitPointsFrom(ops, i, input_to_operations) ==
    IF i > Len(ops) THEN << >>
    ELSE SplitPointsOfOp(ops[i], 1, input_to_operations)
         \o SplitPointsFrom(ops, i + 1, input_to_operations)

analyze_process_patterns(ops, input_to_operations) ==
    [merge_points |-> MergePointsFrom(ops, 1),
     split_points |-> SplitPointsFrom(ops, 1, input_to_operations)]

----------------------------------------------------------------------------
(* analysis.py: analyse_network *)

all_inputs(ops) == UNION {Range(ops[i].inputs) : i \in DOMAIN ops}
all_outputs(ops) == UNION {Range(ops[i].outputs) : i \in DOMAIN ops}

external_inputs_all(ops) == all_inputs(ops)
external_inputs(ops) == all_inputs(ops) \ all_outputs(ops)
final_outputs(ops) == all_outputs(ops) \ all_inputs(ops)

\* lines 68-69: record the producer unless the item already has one
RecordProducerLast(map, output, name) ==
    IF output # "" THEN [k \in DOMAIN map \cup {output} |->
                            IF k = output THEN name ELSE map[k]]
    ELSE map
RecordProducer(map, output, name) ==
    IF output # "" /\ output \notin DOMAIN map
    THEN [k \in DOMAIN map \cup {output} |-> IF k = output THEN name ELSE map[k]]
    ELSE map

\* lines 66-69: the two nested loops, from operation i, output j on
RECURSIVE output_to_operation_from(_, _, _, _)
output_to_operation_from(ops, i, j, map) ==
    IF i > Len(ops) THEN map
    ELSE IF j > Len(ops[i].outputs) THEN output_to_operation_from(ops, i + 1, 1, map)
    ELSE output_to_operation_from(ops, i, j + 1,
             RecordProducer(map, ops[i].outputs[j], ops[i].name))

\* lines 75-76: defaultdict(list)[inp].append(name)
RecordConsumerOnce(map, inp, name) ==
    IF inp # "" /\ inp \notin DOMAIN map
    THEN [k \in DOMAIN map \cup {inp} |-> IF k = inp THEN <<name>> ELSE map[k]]
    ELSE map
RecordConsumer(map, inp, name) ==
    IF inp # ""
    THEN [k \in DOMAIN map \cup {inp} |->
             IF k = inp THEN Append(GetList(map, inp), name) ELSE map[k]]
    ELSE map

\* lines 73-76: the two nested loops, from operation i, input j on
RECURSIVE input_to_operations_from(_, _, _, _)
input_to_operations_from(ops, i, j, map) ==
    IF i > Len(ops) THEN map
    ELSE IF j > Len(ops[i].inputs) THEN input_to_operations_from(ops, i + 1, 1, map)
    ELSE input_to_operations_from(ops, i, j + 1,
             RecordConsumer(map, ops[i].inputs[j], ops[i].name))

\* line 88
max_out_cnt(op, input_to_operations) ==
    IF op.outputs # << >>
    THEN MaxOf([j \in DOMAIN op.outputs |->
                   Len(GetList(input_to_operations, op.outputs[j]))])
    ELSE 0

\* line 90
IsCriticalInputsOnly(op, input_to_operations, ch) ==
    Len(op.inputs) >= ch.critical_min_inputs
IsCritical(op, input_to_operations, ch) ==
    /\ Len(op.inputs) >= ch.critical_min_inputs
    /\ max_out_cnt(op, input_to_operations) >= ch.critical_min_reuse

CriticalPoint(op, input_to_operations) ==
    [operation |-> op.name, inputs_count |-> Len(op.inputs),
     output_reuse |-> max_out_cnt(op, input_to_operations)]

\* lines 82-95, from operation i on
RECURSIVE critical_points_from(_, _, _, _)
critical_points_from(ops, i, input_to_operations, ch) ==
    IF i > Len(ops) THEN << >>
    ELSE (IF ops[i].outputs # << >> /\ IsCritical(ops[i], input_to_operations, ch)
          THEN <<CriticalPoint(ops[i], input_to_operations)>>
          ELSE << >>)
         \o critical_points_from(ops, i + 1, input_to_operations, ch)

analyse_network(ops, ch) ==
    LET o2o == output_to_operation_from(ops, 1, 1, << >>)
        i2o == input_to_operations_from(ops, 1, 1, << >>)
        patterns == analyze_process_patterns(ops, i2o)
    IN  [external_inputs |-> external_inputs(ops),
         final_outputs |-> final_outputs(ops),
         output_to_operation |-> o2o,
         input_to_operations |-> i2o,
         analysis |->
            [merge_points |-> patterns.merge_points,
             split_points |-> patterns.split_points,
             critical_points |-> critical_points_from(ops, 1, i2o, ch),
             external_inputs |-> external_inputs(ops),
             final_outputs |-> final_outputs(ops),
             operations_count |-> Len(ops)]]

----------------------------------------------------------------------------
(* cld_analyzer.py: find_feedback_loops *)

\* Python's order of str, for the names of VarNames
Rank(v) == CHOOSE i \in DOMAIN VarNames : VarNames[i] = v

\* list.index(x), for x in xs
IndexOf(xs, x) == CHOOSE i \in DOMAIN xs : xs[i] = x /\ \A j \in 1..(i - 1) : xs[j] # x

\* min(xs), for a non-empty list of names
MinOf(xs) == CHOOSE m \in Range(xs) : \A x \in Range(xs) : Rank(m) <= Rank(x)

\* xs[i:] + xs[:i], with i counted from 1
Rotate(xs, i) == SubSeq(xs, i, Len(xs)) \o SubSeq(xs, 1, i - 1)

\* line 205
TakesPartAlways(link) == TRUE
TakesPart(link) == link.include_in_cld

\* lines 203-206: graph[link.source].append(link.target) for the included
\* links; "keys" is the insertion order of the keys
RECURSIVE build_graph(_, _, _)
build_graph(ls, i, graph) ==
    IF i > Len(ls) THEN graph
    ELSE IF TakesPart(ls[i])
    THEN build_graph(ls, i + 1,
            [keys |-> IF ls[i].source \in Range(graph.keys) THEN graph.keys
                      ELSE Append(graph.keys, ls[i].source),
             adj |-> [k \in DOMAIN graph.adj \cup {ls[i].source} |->
                        IF k = ls[i].source
                        THEN Append(GetList(graph.adj, k), ls[i].target)
                        ELSE graph.adj[k]]])
    ELSE build_graph(ls, i + 1, graph)

\* line 217
IsLoopAny(loop) == TRUE
IsLoop(loop) == Len(loop) > 1

\* lines 219-220
normalize_none(loop) == loop
normalize(loop) == Rotate(loop, IndexOf(loop, MinOf(loop)))

\* lines 214-223: the current path closes at node
record_loop(node, path, st) ==
    LET loop == SubSeq(path, IndexOf(path, node), Len(path))
    IN  IF IsLoop(loop) /\ normalize(loop) \notin Range(st.loops)
        THEN [st EXCEPT !.loops = Append(@, normalize(loop))]
        ELSE st

\* line 213
on_path_never(node, path) == FALSE
on_path(node, path) == node \in Range(path)

\* line 225
seen_never(node, visited) == FALSE
seen(node, visited) == node \in visited

\* lines 212-234; st holds the closure's loops and visited, "expanded", the
\* nodes whose outgoing links line 231 iterated, once for each time, and
\* "calls", the number of calls of dfs made
RECURSIVE dfs(_, _, _, _)
RECURSIVE dfs_neighbors(_, _, _, _, _)
dfs(graph, node, path, st) ==
    IF on_path(node, path)
    THEN record_loop(node, path, [st EXCEPT !.calls = @ + 1])
    ELSE IF seen(node, st.visited) THEN [st EXCEPT !.calls = @ + 1]
    ELSE dfs_neighbors(graph, GetList(graph.adj, node), 1, Append(path, node),
            [st EXCEPT !.visited = @ \cup {node}, !.expanded = Append(@, node),
                       !.calls = @ + 1])

\* lines 231-232, from neighbour k on; every call gets its own copy of path
dfs_neighbors(graph, neighbors, k, path, st) ==
    IF k > Len(neighbors) THEN st
    ELSE dfs_neighbors(graph, neighbors, k + 1, path,
            dfs(graph, neighbors[k], path, st))

\* lines 236-238, from key i on
dfs_roots_first(graph, i, st) ==
    IF i > Len(graph.keys) THEN st ELSE dfs(graph, graph.keys[i], << >>, st)
RECURSIVE dfs_roots(_, _, _)
dfs_roots(graph, i, st) ==
    IF i > Len(graph.keys) THEN st
    ELSE dfs_roots(graph, i + 1,
            IF graph.keys[i] \notin st.visited
            THEN dfs(graph, graph.keys[i], << >>, st)
            ELSE st)

\* the traversal of find_feedback_loops, with its bookkeeping
traverse(ls) ==
    dfs_roots(build_graph(ls, 1, [keys |-> << >>, adj |-> << >>]), 1,
              [loops |-> << >>, visited |-> {}, expanded |-> << >>, calls |-> 0])

find_feedback_loops(ls) == traverse(ls).loops

----------------------------------------------------------------------------
(* cld_analyzer.py: analyze_causal_links_from_operations *)

\* models.py: CausalLink; strength is None where the code passes none
CausalLink(source, target, influence, operation, include_in_cld, description) ==
    [source |-> source, target |-> target, influence |-> influence,
     strength |-> None, operation |-> operation,
     include_in_cld |-> include_in_cld, description |-> description]

\* lines 41-48; the description is the fixed Russian prefix for "created by
\* operation" followed by the operation name, kept here as a pair
AutoLinkReversed(op, input_var, output_var) ==
    CausalLink(output_var, input_var, "+", Some(op.name), TRUE,
               <<"created by operation", op.name>>)
AutoLink(op, input_var, output_var) ==
    CausalLink(input_var, output_var, "+", Some(op.name), TRUE,
               <<"created by operation", op.name>>)

\* filter(None, xs)
FilterNone(xs) == SelectSeq(xs, LAMBDA x : x # "")

\* lines 28-30
auto_variables(ops) ==
    UNION {Range(FilterNone(ops[i].inputs)) \cup Range(FilterNone(ops[i].outputs)) :
              i \in DOMAIN ops}

\* lines 39-48, for one operation, from input j and output k on
RECURSIVE auto_links_of_op(_, _, _)
auto_links_of_op(op, j, k) ==
    LET ins == FilterNone(op.inputs)
        outs == FilterNone(op.outputs)
    IN  IF j > Len(ins) THEN << >>
        ELSE IF k > Len(outs) THEN auto_links_of_op(op, j + 1, 1)
        ELSE <<AutoLink(op, ins[j], outs[k])>> \o auto_links_of_op(op, j, k + 1)

\* lines 37-48, from operation i on
RECURSIVE auto_links(_, _)
auto_links(ops, i) ==
    IF i > Len(ops) THEN << >>
    ELSE auto_links_of_op(ops[i], 1, 1) \o auto_links(ops, i + 1)

\* lines 183-194
calculate_cld_statistics_of_all_links(ls, variables, loops) ==
    [variables |-> Cardinality(variables),
     links |-> Len(ls),
     positive_links |-> Len(SelectSeq(ls, LAMBDA l : l.influence = "+")),
     negative_links |-> Len(SelectSeq(ls, LAMBDA l : l.influence = "-")),
     loops |-> Len(loops),
     total_rows_processed |-> Len(ls)]
calculate_cld_statistics(ls, variables, loops) ==
    LET included_links == SelectSeq(ls, LAMBDA l : l.include_in_cld)
    IN  [variables |-> Cardinality(variables),
         links |-> Len(included_links),
         positive_links |-> Len(SelectSeq(included_links, LAMBDA l : l.influence = "+")),
         negative_links |-> Len(SelectSeq(included_links, LAMBDA l : l.influence = "-")),
         loops |-> Len(loops),
         total_rows_processed |-> Len(ls)]

\* line 33: not variables
never_empty(variables) == FALSE
no_variables(variables) == variables = {}

\* lines 19-67: the CausalAnalysis returned, or the exception raised
analyze_causal_links_from_operations(ops) ==
    IF ops = << >>
    THEN [value |-> None, raised |-> Some("CLDValidationError")]
    ELSE IF no_variables(auto_variables(ops))
    THEN [value |-> None, raised |-> Some("CLDValidationError")]
    ELSE LET ls == auto_links(ops, 1)
             loops == find_feedback_loops(ls)
         IN  [value |-> Some([links |-> ls,
                              variables |-> auto_variables(ops),
                              feedback_loops |-> loops,
                              source_type |-> "auto",
                              statistics |->
                                 calculate_cld_statistics(ls, auto_variables(ops), loops)]),
              raised |-> None]

----------------------------------------------------------------------------
(* Python str values of table cells.  A str is the sequence of its
   characters.  A Cyrillic letter is written "cyr:" followed by its Latin
   transliteration, a capital one in capitals. *)

Cyr(names) == [i \in DOMAIN names |-> "cyr:" \o names[i]]

UpperChars ==
    <<"A", "B", "C", "D", "E", "F", "G", "H", "I", "J", "K", "L", "M", "N", "O",
      "P", "Q", "R", "S", "T", "U", "V", "W", "X", "Y", "Z", "CYR:D", "CYR:A">>
LowerChars ==
    <<"a", "b", "c", "d", "e", "f", "g", "h", "i", "j", "k", "l", "m", "n", "o",
      "p", "q", "r", "s", "t", "u", "v", "w", "x", "y", "z", "cyr:d", "cyr:a">>

\* str.lower()
LowerChar(c) ==
    IF \E i \in DOMAIN UpperChars : UpperChars[i] = c
    THEN LowerChars[CHOOSE i \in DOMAIN UpperChars : UpperChars[i] = c]
    ELSE c
Lower(str) == [i \in DOMAIN str |-> LowerChar(str[i])]

\* str.strip()
IsSpace(c) == c = " "
RECURSIVE LStrip(_)
LStrip(str) ==
    IF str # << >> /\ IsSpace(Head(str)) THEN LStrip(Tail(str)) ELSE str
RECURSIVE RStrip(_)
RStrip(str) ==
    IF str # << >> /\ IsSpace(str[Len(str)])
    THEN RStrip(SubSeq(str, 1, Len(str) - 1))
    ELSE str
Strip(str) == RStrip(LStrip(str))

\* the cells of a table: a missing value, a str, a bool, a number (an int or
\* a float that equals n), and a value of another type
NaN == [type |-> "nan"]
StrCell(str) == [type |-> "str", s |-> str]
BoolCell(b) == [type |-> "bool", b |-> b]
NumCell(n) == [type |-> "num", n |-> n]
OtherCell == [type |-> "other"]

\* the cell a row of a table of integer columns only yields: iterrows()
\* builds the row from an int64 array, so the value is a numpy.int64, which
\* is no instance of int or float
NpInt(n) == [type |-> "npint", n |-> n]

\* row[label] for a label that two columns carry: a Series, which has no
\* truth value
Series == [type |-> "series"]

\* str(value), for the values whose text the analysis reads
Digits == <<"0", "1", "2", "3", "4", "5", "6", "7", "8", "9">>
ToStr(cell) ==
    IF cell.type = "str" THEN cell.s
    ELSE IF cell.type = "bool"
    THEN (IF cell.b THEN <<"T", "r", "u", "e">> ELSE <<"F", "a", "l", "s", "e">>)
    ELSE <<Digits[cell.n + 1]>>

\* a one-character name is written as that character, as the names of
\* VarNames are
Intern(str) == IF Len(str) = 1 THEN str[1] ELSE str

----------------------------------------------------------------------------
(* cld_analyzer.py: analyze_causal_links_from_dataframe.  A table df holds
   "columns", the list of its labels, and "rows", each the list of its cells
   in column order. *)

\* the labels "Источник", "Цель", "Знак влияния", "Учитывать в CLD",
\* "Сила влияния", "Операция", "Описание"
COL_SOURCE == "Istochnik"
COL_TARGET == "Cel"
COL_INFLUENCE == "Znak vliyaniya"
COL_INCLUDE == "Uchityvat v CLD"
COL_STRENGTH == "Sila vliyaniya"
COL_OPERATION == "Operaciya"
COL_DESCRIPTION == "Opisanie"

\* line 78
required_columns == {COL_SOURCE, COL_TARGET, COL_INFLUENCE}

\* label in row
InRow(columns, label) == \E i \in DOMAIN columns : columns[i] = label

\* row[label], for a label of the table
Cell(columns, row, label) ==
    LET at == {i \in DOMAIN columns : columns[i] = label}
    IN  IF Cardinality(at) = 1 THEN row[CHOOSE i \in at : TRUE] ELSE Series

\* a value, or the exception raised instead of it
Value(v) == [raised |-> None, value |-> v, printed |-> << >>]
Raise(e) == [raised |-> Some(e), value |-> None, printed |-> << >>]

\* lines 145-159; "printed" holds the warnings written
PositiveSigns ==
    {<<"+">>,
     Cyr(<<"p", "o", "l", "o", "zh", "i", "t", "e", "l", "soft", "n", "o", "e">>),
     <<"p", "o", "s", "i", "t", "i", "v", "e">>,
     <<"p", "o", "s">>}
NegativeSigns ==
    {<<"-">>,
     Cyr(<<"o", "t", "r", "i", "ts", "a", "t", "e", "l", "soft", "n", "o", "e">>),
     <<"n", "e", "g", "a", "t", "i", "v", "e">>,
     <<"n", "e", "g">>}
validate_influence_sign_unstripped(influence_value) ==
    IF influence_value.type = "series" THEN Raise("ValueError")
    ELSE IF influence_value.type = "nan" THEN Value("+")
    ELSE LET influence_str == ToStr(influence_value)
         IN  IF influence_str \in PositiveSigns THEN Value("+")
             ELSE IF influence_str \in NegativeSigns THEN Value("-")
             ELSE [Value("+") EXCEPT !.printed = <<influence_str>>]
validate_influence_sign(influence_value) ==
    IF influence_value.type = "series" THEN Raise("ValueError")
    ELSE IF influence_value.type = "nan" THEN Value("+")
    ELSE LET influence_str == Strip(ToStr(influence_value))
         IN  IF influence_str \in PositiveSigns THEN Value("+")
             ELSE IF influence_str \in NegativeSigns THEN Value("-")
             ELSE [Value("+") EXCEPT !.printed = <<influence_str>>]

\* lines 161-175
Affirmative ==
    {<<"t", "r", "u", "e">>, <<"y", "e", "s">>, <<"1">>, Cyr(<<"d", "a">>),
     Cyr(<<"v", "k", "l", "yu", "ch", "i", "t", "soft">>)}
determine_inclusion(columns, row) ==
    IF ~InRow(columns, COL_INCLUDE) THEN Value(TRUE)
    ELSE LET include_value == Cell(columns, row, COL_INCLUDE)
         IN  IF include_value.type = "series" THEN Raise("ValueError")
             ELSE IF include_value.type = "nan" THEN Value(TRUE)
             ELSE IF include_value.type = "bool" THEN Value(include_value.b)
             ELSE IF include_value.type = "str"
             THEN Value(Lower(include_value.s) \in Affirmative)
             ELSE IF include_value.type = "num" THEN Value(include_value.n # 0)
             ELSE Value(TRUE)

\* lines 177-181
extract_optional_field(columns, row, field_name, default) ==
    IF ~InRow(columns, field_name) THEN Value(default)
    ELSE LET c == Cell(columns, row, field_name)
         IN  IF c.type = "series" THEN Raise("ValueError")
             ELSE IF c.type = "nan" THEN Value(default)
             ELSE Value(Some(ToStr(c)))

\* lines 93-94
cell_name(cell) == Strip(ToStr(cell))

\* lines 121-122: variables.add(source); variables.add(target)
add_source_only(variables, source, target) == variables \cup {source}
add_variables(variables, source, target) == variables \cup {source, target}

\* lines 88-122: one iteration of the loop over the rows; acc holds links,
\* variables, valid_rows, what was printed and the exception raised, if any
manual_row(columns, row, acc) ==
    LET src == Cell(columns, row, COL_SOURCE)
        tgt == Cell(columns, row, COL_TARGET)
        source == cell_name(src)
        target == cell_name(tgt)
        influence == validate_influence_sign(Cell(columns, row, COL_INFLUENCE))
        include_in_cld == determine_inclusion(columns, row)
        strength == extract_optional_field(columns, row, COL_STRENGTH, None)
        operation == extract_optional_field(columns, row, COL_OPERATION, None)
        description ==
            extract_optional_field(columns, row, COL_DESCRIPTION, Some(<< >>))
        printed == acc.printed \o influence.printed
    IN  IF src.type = "series" THEN [acc EXCEPT !.raised = Some("ValueError")]
        ELSE IF src.type = "nan" THEN acc
        ELSE IF tgt.type = "series" THEN [acc EXCEPT !.raised = Some("ValueError")]
        ELSE IF tgt.type = "nan" THEN acc
        ELSE IF source = << >> \/ target = << >> THEN acc
        ELSE IF influence.raised # None THEN [acc EXCEPT !.raised = influence.raised]
        ELSE IF \/ include_in_cld.raised # None
                \/ strength.raised # None
                \/ operation.raised # None
                \/ description.raised # None
        THEN [acc EXCEPT !.raised = Some("ValueError"), !.printed = printed]
        ELSE [acc EXCEPT
                !.links = Append(@,
                    [CausalLink(Intern(source), Intern(target), influence.value,
                                operation.value, include_in_cld.value,
                                description.value[1])
                     EXCEPT !.strength = strength.value]),
                !.variables = add_variables(@, Intern(source), Intern(target)),
                !.valid_rows = @ + 1,
                !.printed = printed]

\* lines 88-122, from row i on; an exception ends the loop
RECURSIVE manual_rows(_, _, _)
manual_rows(table, i, acc) ==
    IF i > Len(table.rows) \/ acc.raised # None THEN acc
    ELSE manual_rows(table, i + 1, manual_row(table.columns, table.rows[i], acc))

\* lines 139-143: CLDValidationError passes, any other exception is raised
\* again as CLDValidationError
reraise_unwrapped(e) == e
reraise(e) == IF e = "CLDValidationError" THEN e ELSE "CLDValidationError"

\* lines 69-143: the CausalAnalysis returned or the exception raised, and
\* what was printed
analyze_causal_links_from_dataframe(table) ==
    IF ~(required_columns \subseteq Range(table.columns))
    THEN Raise(reraise("CLDValidationError"))
    ELSE IF table.rows = << >>
    THEN Raise(reraise("CLDValidationError"))
    ELSE LET acc == manual_rows(table, 1,
                        [links |-> << >>, variables |-> {}, valid_rows |-> 0,
                         printed |-> << >>, raised |-> None])
             loops == find_feedback_loops(acc.links)
         IN  IF acc.raised # None
             THEN [Raise(reraise(acc.raised[1])) EXCEPT !.printed = acc.printed]
             ELSE IF acc.valid_rows = 0
             THEN [Raise(reraise("CLDValidationError")) EXCEPT !.printed = acc.printed]
             ELSE [Value(Some([links |-> acc.links,
                               variables |-> acc.variables,
                               feedback_loops |-> loops,
                               source_type |-> "manual",
                               statistics |->
                                  calculate_cld_statistics(acc.links, acc.variables,
                                                           loops)]))
                   EXCEPT !.printed = acc.printed]

\* a table without rows
EmptyTable == [columns |-> << >>, rows |-> << >>]

----------------------------------------------------------------------------
(* The load-then-analyse pipeline *)

\* models.py: the defaults of Choices
DefaultChoices == [critical_min_inputs |-> 3, critical_min_reuse |-> 3]

InitNet ==
    /\ operations = << >>
    /\ choices = DefaultChoices
    /\ analysis_data = None
    /\ causal_analysis = None
    /\ error = None
    /\ links = << >>
    /\ feedback_loops = None
    /\ counts = [operations |-> 0, merge_points |-> 0, split_points |-> 0,
                 critical_points |-> 0]
    /\ score = 0
    /\ df = EmptyTable
    /\ stdout = << >>
    /\ heap = NoHeap
    /\ engine = NewEngine
    /\ gui = NewGui
    /\ call = None

\* data_loader.collect_operations: one iteration of the loop that stores an
\* Operation under a name not stored before; its inputs and outputs are
\* list(set(...)) of the stripped, non-empty tokens of the cells
AddOperation ==
    /\ analysis_data = None
    /\ causal_analysis = None
    /\ error = None
    /\ Len(operations) < MaxOps
    /\ \E ins \in SUBSET Items, outs \in SUBSET Items :
       \E inputs \in ListsOfSet(ins), outputs \in ListsOfSet(outs) :
          operations' = Append(operations,
              [name |-> OpNames[Len(operations) + 1],
               inputs |-> inputs, outputs |-> outputs])
    /\ UNCHANGED <<choices, analysis_data, causal_analysis, error, links,
                   feedback_loops, counts, score, df, stdout, others>>

\* main.py: analysis_data = analyse_network(operations, choices)
AnalyseNetwork ==
    /\ analysis_data = None
    /\ causal_analysis = None
    /\ error = None
    /\ \E cmi \in 0..MaxThreshold, cmr \in 0..MaxThreshold :
          choices' = [critical_min_inputs |-> cmi, critical_min_reuse |-> cmr]
    /\ analysis_data' = Some(analyse_network(operations, choices'))
    /\ UNCHANGED <<operations, causal_analysis, error, links, feedback_loops,
                   counts, score, df, stdout, others>>

\* main.py: causal_analysis = analyze_causal_links_from_operations(operations)
AnalyzeCausalLinks ==
    /\ analysis_data = None
    /\ causal_analysis = None
    /\ error = None
    /\ LET r == analyze_causal_links_from_operations(operations)
       IN  causal_analysis' = r.value /\ error' = r.raised
    /\ UNCHANGED <<operations, choices, analysis_data, links, feedback_loops,
                   counts, score, df, stdout, others>>

NextNet == AddOperation \/ AnalyseNetwork \/ AnalyzeCausalLinks

SpecNet == InitNet /\ [][NextNet]_vars

----------------------------------------------------------------------------
(* Properties of analyse_network *)

Analysed == analysis_data # None
AD == analysis_data[1]

OpIdx == DOMAIN operations
Consumes(i, z) == \E j \in DOMAIN operations[i].inputs : operations[i].inputs[j] = z
Produces(i, z) == \E j \in DOMAIN operations[i].outputs : operations[i].outputs[j] = z
Consumers(z) == {i \in OpIdx : Consumes(i, z)}
Producers(z) == {i \in OpIdx : Produces(i, z)}
NamesOf(I) == {operations[i].name : i \in I}

SplitPointsAt(i, z) ==
    {k \in DOMAIN AD.analysis.split_points :
        /\ AD.analysis.split_points[k].source_operation = operations[i].name
        /\ AD.analysis.split_points[k].output = z}

CriticalPointsAt(i) ==
    {k \in DOMAIN AD.analysis.critical_points :
        AD.analysis.critical_points[k].operation = operations[i].name}

\* the largest number of consumers over the outputs of operation i
MaxReuse(i) ==
    CHOOSE m \in 0..Len(operations) :
        /\ \E z \in Items : Produces(i, z) /\ Cardinality(Consumers(z)) = m
        /\ \A z \in Items : Produces(i, z) => Cardinality(Consumers(z)) <= m

MergePointsAt(i) ==
    {k \in DOMAIN AD.analysis.merge_points :
        AD.analysis.merge_points[k].operation = operations[i].name}

CausalAnalysed == causal_analysis # None
CA == causal_analysis[1]

LinksAt(i, x, y) ==
    {k \in DOMAIN CA.links :
        /\ CA.links[k].operation = Some(operations[i].name)
        /\ CA.links[k].source = x
        /\ CA.links[k].target = y}

AutoAnalysed == CausalAnalysed \/ error # None

\* no operation has an input or an output
NoItems ==
    \A i \in DOMAIN operations :
        operations[i].inputs = << >> /\ operations[i].outputs = << >>

\* C16: analyze_causal_links_from_operations raises CLDValidationError and
\* returns no CausalAnalysis when there are no operations and when no
\* variables result, which is when every operation has neither inputs nor
\* outputs; in every other case it returns a CausalAnalysis.
C16_NothingToAnalyse ==
    AutoAnalysed =>
        IF operations = << >> \/ NoItems
        THEN error = Some("CLDValidationError") /\ ~CausalAnalysed
        ELSE error = None /\ CausalAnalysed

\* two operations without inputs and outputs analysed: CLDValidationError
C16_Witness ==
    /\ Len(operations) = 2
    /\ NoItems
    /\ error = Some("CLDValidationError")
    /\ ~CausalAnalysed

----------------------------------------------------------------------------
(* The list objects of an AnalysisData.  A Python list is an object: two
   names that hold the same list see each other's changes.  heap.objects
   holds the value of each list object, and the other fields of heap say
   which object each list-valued part of the returned AnalysisData is. *)

\* the inputs list of the Operation of a name, and the list that
\* defaultdict(list) creates for an item (analysis.py 72, 76)
InputsOf(name) == <<"inputs", name>>
ConsumersOf(item) == <<"consumers", item>>

\* analysis.py 24: inputs=op_data.inputs, the list of the Operation itself
MergeInputsRef(merge_point) == InputsOf(merge_point.operation)

\* analysis.py 34: targets=input_to_operations[output], the list of the dict
SplitTargetsRef(split_point) == ConsumersOf(split_point.output)

\* the objects after analyse_network(ops, ch) has returned result
ObjectsOf(ops, result) ==
    LET ids == {InputsOf(ops[i].name) : i \in DOMAIN ops}
               \cup {ConsumersOf(item) : item \in DOMAIN result.input_to_operations}
    IN  [objects |->
            [id \in ids |->
                IF id[1] = "inputs"
                THEN ops[CHOOSE i \in DOMAIN ops : ops[i].name = id[2]].inputs
                ELSE result.input_to_operations[id[2]]],
         merge_inputs |->
            [k \in DOMAIN result.analysis.merge_points |->
                MergeInputsRef(result.analysis.merge_points[k])],
         split_targets |->
            [k \in DOMAIN result.analysis.split_points |->
                SplitTargetsRef(result.analysis.split_points[k])],
         input_to_operations |->
            [item \in DOMAIN result.input_to_operations |-> ConsumersOf(item)],
         changed |-> None]

\* analysis_data = analyse_network(operations, choices), with its objects
AnalyseNetworkObjects ==
    /\ analysis_data = None
    /\ analysis_data' = Some(analyse_network(operations, choices))
    /\ heap' = ObjectsOf(operations, analyse_network(operations, choices))
    /\ UNCHANGED <<operations, choices, causal_analysis, error, links, feedback_loops,
                   counts, score, df, stdout, engine, gui, call>>

\* the caller, after the call: operations[name].inputs.append(item)
AppendToInputs ==
    /\ analysis_data # None
    /\ heap.changed = None
    /\ \E i \in DOMAIN operations, item \in Items \cup {"new"} :
          /\ operations' = [operations EXCEPT ![i].inputs = Append(@, item)]
          /\ heap' = [heap EXCEPT
                        !.objects[InputsOf(operations[i].name)] = Append(@, item),
                        !.changed = Some(<<"operation", i>>)]
    /\ UNCHANGED <<choices, analysis_data, causal_analysis, error, links,
                   feedback_loops, counts, score, df, stdout, engine, gui, call>>

\* the caller, after the call:
\* analysis_data.analysis.split_points[k].targets.append(name)
AppendToTargets ==
    /\ analysis_data # None
    /\ heap.changed = None
    /\ \E k \in DOMAIN heap.split_targets :
          heap' = [heap EXCEPT
                     !.objects[heap.split_targets[k]] = Append(@, "new"),
                     !.changed = Some(<<"split_point", k>>)]
    /\ UNCHANGED <<operations, choices, analysis_data, causal_analysis, error, links,
                   feedback_loops, counts, score, df, stdout, engine, gui, call>>

NextObjects ==
    AddOperation \/ AnalyseNetworkObjects \/ AppendToInputs \/ AppendToTargets

\* the analysis and what the caller does to the lists afterwards
SpecObjects == InitNet /\ [][NextObjects]_vars

\* the lists the parts of the AnalysisData hold now
MergeInputsNow(k) == heap.objects[heap.merge_inputs[k]]
SplitTargetsNow(k) == heap.objects[heap.split_targets[k]]
ConsumersNow(item) == heap.objects[heap.input_to_operations[item]]

\* C21: the AnalysisData returned holds no reference to the caller's state
\* nor one part of it to another: after the caller has changed the inputs
\* list of an Operation, or one split point's targets, every other part of
\* the AnalysisData (merge point inputs, split point targets,
\* input_to_operations) is as analyse_network returned it.
C21_FreshResult ==
    Analysed =>
        /\ \A k \in DOMAIN AD.analysis.merge_points :
              MergeInputsNow(k) = AD.analysis.merge_points[k].inputs
        /\ \A k \in DOMAIN AD.analysis.split_points :
              heap.changed # Some(<<"split_point", k>>)
                 => SplitTargetsNow(k) = AD.analysis.split_points[k].targets
        /\ \A item \in DOMAIN AD.input_to_operations :
              ConsumersNow(item) = AD.input_to_operations[item]

\* the inputs of an Operation changed after the call: a merge point's inputs
\* have changed with them
C21_MergePointFollows ==
    /\ Analysed
    /\ \E i \in DOMAIN operations :
          /\ heap.changed = Some(<<"operation", i>>)
          /\ \E k \in DOMAIN AD.analysis.merge_points :
                /\ AD.analysis.merge_points[k].operation = operations[i].name
                /\ MergeInputsNow(k) # AD.analysis.merge_points[k].inputs

\* a split point's targets changed after the call: input_to_operations has
\* changed with them
C21_ConsumersFollow ==
    /\ Analysed
    /\ \E k \in DOMAIN AD.analysis.split_points :
          /\ heap.changed = Some(<<"split_point", k>>)
          /\ ConsumersNow(AD.analysis.split_points[k].output)
                # AD.input_to_operations[AD.analysis.split_points[k].output]

\* what does hold: the lists of input_to_operations and the output_to_operation
\* dict are no objects of the caller, so a change to an Operation leaves them
C21_OwnConsumerLists ==
    Analysed /\ (\E i \in DOMAIN operations : heap.changed = Some(<<"operation", i>>))
        => \A item \in DOMAIN AD.input_to_operations :
              ConsumersNow(item) = AD.input_to_operations[item]

----------------------------------------------------------------------------
(* analyse_network on operations the caller has constructed *)

\* the lists of items a caller may hand to Operation(...)
ItemLists == UNION {[1..n -> Items] : n \in 0..2}

\* v2 models.py 7-16: operations[name] = Operation(name=..., outputs=...,
\* inputs=..., ...); the dataclass keeps the two lists as they are given
ConstructOperation ==
    /\ analysis_data = None
    /\ Len(operations) < MaxOps
    /\ \E inputs \in ItemLists, outputs \in ItemLists :
          operations' = Append(operations,
              [name |-> OpNames[Len(operations) + 1],
               inputs |-> inputs, outputs |-> outputs])
    /\ UNCHANGED <<choices, analysis_data, causal_analysis, error, links,
                   feedback_loops, counts, score, df, stdout, others>>

NextDirect == ConstructOperation \/ AnalyseNetworkObjects

SpecDirect == InitNet /\ [][NextDirect]_vars

\* the names of the operations whose inputs contain the item, in the order
\* of the mapping
ConsumersInOrder(item) ==
    LET consuming == SelectSeq(operations, LAMBDA op : item \in Range(op.inputs))
    IN  [k \in DOMAIN consuming |-> consuming[k].name]

\* C24: after analyse_network, input_to_operations[item] lists every
\* operation whose inputs contain the item, each exactly once, in insertion
\* order, and an item that no operation consumes has no entry.
C24_ConsumersOnce ==
    Analysed =>
        \A item \in Items :
            IF ConsumersInOrder(item) # << >>
            THEN /\ item \in DOMAIN AD.input_to_operations
                 /\ AD.input_to_operations[item] = ConsumersInOrder(item)
            ELSE item \notin DOMAIN AD.input_to_operations

\* an operation whose inputs name an item twice is listed twice
C24_ListedTwice ==
    /\ Analysed
    /\ \E item \in DOMAIN AD.input_to_operations :
          \E j, k \in DOMAIN AD.input_to_operations[item] :
             /\ j # k
             /\ AD.input_to_operations[item][j] = AD.input_to_operations[item][k]

\* an operation is listed once for each time its inputs name the item
C24_OncePerOccurrence ==
    Analysed =>
        \A item \in Items :
            /\ item \in DOMAIN AD.input_to_operations
                  <=> ConsumersInOrder(item) # << >>
            /\ \A i \in DOMAIN operations :
                  Len(SelectSeq(GetList(AD.input_to_operations, item),
                                LAMBDA name : name = operations[i].name))
                     = Len(SelectSeq(operations[i].inputs, LAMBDA inp : inp = item))

----------------------------------------------------------------------------
(* data_loader.py: collect_operations, in its three versions (the one of
   the repository root, of business_process_generator_v2 and of
   business_process_generator_v4), and models.py: Operation.  A sheet df
   holds "columns" and "rows" as a link table does.  An Operation holds its
   name and the items of its inputs and outputs as str values. *)

\* the labels "Входы" and "Выход"
COL_INPUTS == "Vhody"
COL_OUTPUT == "Vyhod"

\* the character U+2014, which marks a cell as empty
Dash == "dash"

\* the three versions of the loader
Loaders == {"root", "v2", "v4"}

\* str.split(";"): the pieces from position i on, piece being the one begun
RECURSIVE SplitFrom(_, _, _)
SplitFrom(str, i, piece) ==
    IF i > Len(str) THEN <<piece>>
    ELSE IF str[i] = ";" THEN <<piece>> \o SplitFrom(str, i + 1, << >>)
    ELSE SplitFrom(str, i + 1, Append(piece, str[i]))
Split(str) == SplitFrom(str, 1, << >>)

\* [t.strip() for t in text.split(";") if t.strip()]
StrippedPieces(text) ==
    LET pieces == Split(text)
    IN  SelectSeq([k \in DOMAIN pieces |-> Strip(pieces[k])], LAMBDA t : t # << >>)

\* root data_loader.py 165-173, v2 55-59, v4 59-63
extract_inputs(loader, columns, row) ==
    LET cell == Cell(columns, row, COL_INPUTS)
    IN  IF cell.type # "nan"
        THEN LET input_text == ToStr(cell)
             IN  IF (loader = "root" => Strip(input_text) # << >>)
                    /\ Strip(input_text) # <<Dash>>
                 THEN StrippedPieces(input_text)
                 ELSE << >>
        ELSE << >>

\* root data_loader.py 175-183, v2 62-67, v4 66-71
extract_outputs(columns, row) ==
    LET cell == Cell(columns, row, COL_OUTPUT)
    IN  IF cell.type # "nan"
        THEN LET output_text == Strip(ToStr(cell))
             IN  IF output_text # << >> /\ output_text # <<Dash>>
                 THEN StrippedPieces(output_text)
                 ELSE << >>
        ELSE << >>

\* f"Операция_{fallback_index}"
FallbackName(fallback_index) ==
    Cyr(<<"O", "p", "e", "r", "a", "ts", "i", "ya">>) \o <<"_", Digits[fallback_index + 1]>>

\* root data_loader.py 74-81: _extract_operation_name
extract_operation_name(columns, row, fallback_index) ==
    LET operation_value == Cell(columns, row, COL_OPERATION)
    IN  IF operation_value.type = "nan" \/ Strip(ToStr(operation_value)) = << >>
        THEN FallbackName(fallback_index)
        ELSE Strip(ToStr(operation_value))

\* v2 data_loader.py 40, v4 core/data_loader.py 44
op_name_of_row(columns, row, fallback_index) ==
    LET operation_value == Cell(columns, row, COL_OPERATION)
    IN  IF operation_value.type # "nan"
        THEN Strip(ToStr(operation_value))
        ELSE FallbackName(fallback_index)

\* root 58-64, v2 37-41, v4 40-45: operation_rows, a dict in insertion
\* order, as the list of its keys with their rows.  The name of a row is
\* taken while operations, the result, is still empty.
operation_rows(loader, table) ==
    LET operations_so_far == << >>
        kept == SelectSeq(table.rows,
                    LAMBDA row : ~ (/\ Cell(table.columns, row, COL_OPERATION).type = "nan"
                                    /\ Cell(table.columns, row, COL_OUTPUT).type = "nan"))
        names == [k \in DOMAIN kept |->
                    IF loader = "root"
                    THEN extract_operation_name(table.columns, kept[k],
                                                Len(operations_so_far))
                    ELSE op_name_of_row(table.columns, kept[k],
                                        Len(operations_so_far))]
        firsts == SelectSeq([k \in DOMAIN kept |-> k],
                            LAMBDA k : \A j \in 1..(k - 1) : names[j] # names[k])
    IN  [g \in DOMAIN firsts |->
            [op_name |-> names[firsts[g]],
             rows |-> LET same == SelectSeq([k \in DOMAIN kept |-> k],
                                            LAMBDA k : names[k] = names[firsts[g]])
                      IN  [k \in DOMAIN same |-> kept[same[k]]]]]

\* merged_inputs and merged_outputs after the loop over the rows of one
\* operation (root 104-109, v2 53-67), from row k on
RECURSIVE merged_inputs(_, _, _, _)
merged_inputs(loader, columns, rows, k) ==
    IF k > Len(rows) THEN << >>
    ELSE extract_inputs(loader, columns, rows[k])
            \o merged_inputs(loader, columns, rows, k + 1)
RECURSIVE merged_outputs(_, _, _)
merged_outputs(columns, rows, k) ==
    IF k > Len(rows) THEN << >>
    ELSE extract_outputs(columns, rows[k]) \o merged_outputs(columns, rows, k + 1)

\* root models.py 55-68: Operation._validate; the cleaned lists
cleaned(items) ==
    LET kept == SelectSeq(items, LAMBDA item : item # << >> /\ Strip(item) # << >>)
    IN  [k \in DOMAIN kept |-> Strip(kept[k])]

\* the fields of the dataclass Operation: root models.py 39-46, v2 models.py
\* 8-16, v4 core/models.py 9-15 (node_text is a property there)
OperationFields(loader) ==
    IF loader = "v4"
    THEN {"name", "inputs", "outputs", "group", "owner", "detailed", "subgroup"}
    ELSE {"name", "outputs", "inputs", "subgroup", "node_text", "group", "owner",
          "detailed"}

\* the keyword arguments of the call Operation(...): root data_loader.py
\* 139-154, v2 93-102, v4 106-115
OperationKeywords(loader) ==
    {"name", "outputs", "inputs", "subgroup", "node_text", "group", "owner", "detailed"}
    \cup (IF loader = "root"
          THEN {"time_minutes", "cycle_count", "cycle_period", "personnel_count",
                "personnel_cost_per_hour"}
          ELSE {})

\* Operation(name=..., inputs=..., outputs=..., ...) with the keywords given:
\* a keyword that is no field raises TypeError; the root class then runs
\* _validate, the other two keep the values as given
NewOperation(loader, keywords, name, inputs, outputs) ==
    IF ~ (keywords \subseteq OperationFields(loader)) THEN Raise("TypeError")
    ELSE IF loader = "root"
    THEN IF name = << >> \/ Strip(name) = << >> THEN Raise("ValueError")
         ELSE Value([name |-> Strip(name), inputs |-> cleaned(inputs),
                     outputs |-> cleaned(outputs)])
    ELSE Value([name |-> name, inputs |-> inputs, outputs |-> outputs])

\* list(set(filter(None, items))), root 121-122; list(set(items)), v2 87-88:
\* the order of a set of str is any
deduplicated(loader, items) ==
    ListsOfSet(IF loader = "root" THEN Range(items) \ {<< >>} ELSE Range(items))

\* the results collect_operations may have, from key k of operation_rows on
\* (root 67-72 with _merge_operation_data 83-163; v2 44-104; v4 48-117).
\* The root version prints an exception of the constructor and goes on.
RECURSIVE collect_from(_, _, _, _, _)
collect_from(loader, columns, groups, k, acc) ==
    IF k > Len(groups) THEN {acc}
    ELSE UNION {
            LET r == NewOperation(loader, OperationKeywords(loader),
                                  groups[k].op_name, inputs, outputs)
            IN  IF r.raised = None
                THEN collect_from(loader, columns, groups, k + 1,
                        [acc EXCEPT !.value = Append(@, r.value)])
                ELSE IF loader = "root"
                THEN collect_from(loader, columns, groups, k + 1,
                        [acc EXCEPT !.printed =
                            Append(@, <<"operation not processed", groups[k].op_name>>)])
                ELSE {[acc EXCEPT !.raised = r.raised]} :
            inputs \in deduplicated(loader,
                          merged_inputs(loader, columns, groups[k].rows, 1)),
            outputs \in deduplicated(loader,
                          merged_outputs(columns, groups[k].rows, 1))}

collect_operations(loader, table) ==
    collect_from(loader, table.columns, operation_rows(loader, table), 1,
                 Value(<< >>))

----------------------------------------------------------------------------
(* Manual mode on a link table *)

\* number of rows of a link table
MaxTableRows == 2

\* the rows a table with these columns can hold, from column i on, each cell
\* drawn from the cells given for its label
RECURSIVE RowsFrom(_, _, _)
RowsFrom(columns, i, cells) ==
    IF i > Len(columns) THEN {<< >>}
    ELSE {<<c>> \o r : c \in cells[columns[i]], r \in RowsFrom(columns, i + 1, cells)}

\* column lists of the tables: the required columns, with the inclusion
\* column, and without the influence column
ManualColumns ==
    {<<COL_SOURCE, COL_TARGET, COL_INFLUENCE>>,
     <<COL_SOURCE, COL_TARGET, COL_INFLUENCE, COL_INCLUDE>>,
     <<COL_SOURCE, COL_TARGET>>}

\* cells of the rows of these tables
ManualCells ==
    [label \in {COL_SOURCE, COL_TARGET, COL_INFLUENCE, COL_INCLUDE} |->
        IF label = COL_SOURCE
        THEN {NaN, StrCell(<<" ">>), StrCell(<<"a">>), StrCell(<<"b", " ">>)}
        ELSE IF label = COL_TARGET
        THEN {NaN, StrCell(<< >>), StrCell(<<" ", "a">>), StrCell(<<"b">>)}
        ELSE IF label = COL_INFLUENCE
        THEN {StrCell(<<"+">>), StrCell(<<"n", "e", "g">>)}
        ELSE {BoolCell(FALSE), StrCell(<<"Y", "e", "s">>)}]

InitTable(tables) ==
    /\ operations = << >>
    /\ choices = DefaultChoices
    /\ analysis_data = None
    /\ causal_analysis = None
    /\ error = None
    /\ links = << >>
    /\ feedback_loops = None
    /\ counts = [operations |-> 0, merge_points |-> 0, split_points |-> 0,
                 critical_points |-> 0]
    /\ score = 0
    /\ df \in tables
    /\ stdout = << >>
    /\ heap = NoHeap
    /\ engine = NewEngine
    /\ gui = NewGui
    /\ call = None

\* a sheet with its header row read
InitManual == InitTable({[columns |-> c, rows |-> << >>] : c \in ManualColumns})

\* one more row of the sheet read into the table
AddRow ==
    /\ causal_analysis = None
    /\ error = None
    /\ Len(df.rows) < MaxTableRows
    /\ \E row \in RowsFrom(df.columns, 1, ManualCells) :
          df' = [df EXCEPT !.rows = Append(@, row)]
    /\ UNCHANGED <<operations, choices, analysis_data, causal_analysis, error, links,
                   feedback_loops, counts, score, stdout, others>>

\* main.py: causal_analysis = analyze_causal_links_from_dataframe(cld_df)
AnalyzeTable ==
    /\ causal_analysis = None
    /\ error = None
    /\ LET r == analyze_causal_links_from_dataframe(df)
       IN  /\ causal_analysis' = r.value
           /\ error' = r.raised
           /\ stdout' = stdout \o r.printed
    /\ UNCHANGED <<operations, choices, analysis_data, links, feedback_loops,
                   counts, score, df, others>>

NextManual == AddRow \/ AnalyzeTable

\* manual mode on tables of up to MaxTableRows rows
SpecManual == InitManual /\ [][NextManual]_vars

\* main.py 35-50: a CLD sheet loaded is analysed as a table (manual mode),
\* otherwise the operations are collected and analysed (auto mode)
InitBothModes ==
    InitTable({EmptyTable} \cup {[columns |-> c, rows |-> << >>] : c \in ManualColumns})

NextBothModes ==
    \/ df = EmptyTable /\ AddOperation
    \/ df = EmptyTable /\ AnalyzeCausalLinks
    \/ df # EmptyTable /\ AddRow
    \/ df # EmptyTable /\ AnalyzeTable

\* the causal analysis in either mode
SpecBothModes == InitBothModes /\ [][NextBothModes]_vars

\* column lists of the one-row tables: as above, with the source label
\* twice, with an optional column, and without each required column
RowColumns ==
    ManualColumns \cup
    {<<COL_SOURCE, COL_SOURCE, COL_TARGET, COL_INFLUENCE>>,
     <<COL_SOURCE, COL_TARGET, COL_INFLUENCE, COL_OPERATION>>,
     <<COL_TARGET, COL_INFLUENCE>>,
     <<COL_SOURCE, COL_INFLUENCE>>}

\* cells of the row of these tables, of every kind the analysis tells apart
RowCells ==
    [label \in {COL_SOURCE, COL_TARGET, COL_INFLUENCE, COL_INCLUDE, COL_OPERATION} |->
        IF label \in {COL_SOURCE, COL_TARGET} THEN ManualCells[label]
        ELSE IF label = COL_INFLUENCE
        THEN {NaN, NumCell(1)} \cup
             {StrCell(str) :
                 str \in PositiveSigns \cup NegativeSigns \cup
                         {<< >>, <<" ", "p", "o", "s", " ">>, <<"P", "o", "s">>,
                          <<"x", "y", "z">>}}
        ELSE IF label = COL_INCLUDE
        THEN {NaN, BoolCell(TRUE), BoolCell(FALSE), NumCell(0), NumCell(2), OtherCell}
             \cup {StrCell(str) :
                      str \in Affirmative \cup
                              {<<"T", "R", "U", "E">>, <<"Y", "e", "s">>,
                               <<"CYR:D", "CYR:A">>, <<" ", "y", "e", "s">>,
                               <<"n", "o">>, <<"0">>, << >>}}
        ELSE {NaN, StrCell(<<"A">>)}]

\* a table of no row or of one row
TablesOver(columns) ==
    {[columns |-> columns, rows |-> rs] :
        rs \in {<< >>} \cup {<<r>> : r \in RowsFrom(columns, 1, RowCells)}}

\* the tables of one row whose columns all hold integers
IntegerTables ==
    {[columns |-> <<COL_SOURCE, COL_TARGET, COL_INFLUENCE, COL_INCLUDE>>,
      rows |-> <<<<NpInt(1), NpInt(2), NpInt(i), NpInt(n)>>>>] :
        i \in 0..1, n \in 0..2}

InitRow == InitTable(IntegerTables \cup UNION {TablesOver(c) : c \in RowColumns})

NextRow == AnalyzeTable

\* manual mode row by row: every kind of cell, in a table of one row
SpecRow == InitRow /\ [][NextRow]_vars

----------------------------------------------------------------------------
(* Properties of analyze_causal_links_from_dataframe *)

\* the cell of row i of the table under a label
RowCell(i, label) == Cell(df.columns, df.rows[i], label)

\* a cell that is missing, and one that is empty or whitespace-only
Missing(cell) == cell.type = "nan"
Blank(cell) == cell.type = "str" /\ \A i \in DOMAIN cell.s : cell.s[i] = " "

\* the rows whose source and target are both named
RowProducesLink(i) ==
    /\ ~Missing(RowCell(i, COL_SOURCE)) /\ ~Blank(RowCell(i, COL_SOURCE))
    /\ ~Missing(RowCell(i, COL_TARGET)) /\ ~Blank(RowCell(i, COL_TARGET))

KeptRows == SelectSeq([i \in 1..Len(df.rows) |-> i], RowProducesLink)

\* the name a cell gives: its text without the surrounding blanks (the names
\* of the tables have no inner blank)
NameOf(cell) == Intern(SelectSeq(ToStr(cell), LAMBDA ch : ch # " "))

\* C13: in manual mode a row whose source or target is missing, empty or
\* whitespace-only produces no link and adds nothing to the variables,
\* whatever its other cells hold; every other row produces exactly one link,
\* the links are in row order, and the variables are exactly the sources and
\* targets of the rows that produced a link.
C13_RowsToLinks ==
    CausalAnalysed =>
        /\ Len(CA.links) = Len(KeptRows)
        /\ \A k \in DOMAIN KeptRows :
              /\ CA.links[k].source = NameOf(RowCell(KeptRows[k], COL_SOURCE))
              /\ CA.links[k].target = NameOf(RowCell(KeptRows[k], COL_TARGET))
        /\ CA.variables =
              UNION {{NameOf(RowCell(KeptRows[k], COL_SOURCE)),
                      NameOf(RowCell(KeptRows[k], COL_TARGET))} :
                        k \in DOMAIN KeptRows}

\* a table of two rows analysed: the first row has a blank source and the
\* target b, the second row gave the only link, and b is no variable
C13_Witness ==
    /\ CausalAnalysed
    /\ Len(df.rows) = 2
    /\ Blank(RowCell(1, COL_SOURCE))
    /\ RowCell(1, COL_TARGET) = StrCell(<<"b">>)
    /\ RowProducesLink(2)
    /\ Len(CA.links) = 1
    /\ "b" \notin CA.variables

\* the analysis of the table has returned or raised
TableAnalysed == CausalAnalysed \/ error # None

\* the table has the required columns, no label twice, and a first row
\* with a named source and target
FirstRowNamed ==
    /\ required_columns \subseteq Range(df.columns)
    /\ \A i, j \in DOMAIN df.columns : df.columns[i] = df.columns[j] => i = j
    /\ df.rows # << >>
    /\ RowProducesLink(1)

\* the text of a cell without the surrounding blanks
TextOf(cell) == SelectSeq(ToStr(cell), LAMBDA ch : ch # " ")

\* the spellings of the two signs in English and in Russian
EnglishPositive == {<<"+">>, <<"p", "o", "s", "i", "t", "i", "v", "e">>, <<"p", "o", "s">>}
EnglishNegative == {<<"-">>, <<"n", "e", "g", "a", "t", "i", "v", "e">>, <<"n", "e", "g">>}
RussianPositive ==
    {Cyr(<<"p", "o", "l", "o", "zh", "i", "t", "e", "l", "soft", "n", "o", "e">>)}
RussianNegative ==
    {Cyr(<<"o", "t", "r", "i", "ts", "a", "t", "e", "l", "soft", "n", "o", "e">>)}

\* the influence of the link of the first row follows its cell: "+" for the
\* spellings of positive, "-" for those of negative, and "+" for a missing
\* cell and for any other text, with a warning printed as stated for each
InfluenceFollows(positive, negative, missing_warns) ==
    LET cell == RowCell(1, COL_INFLUENCE)
        influence == CA.links[1].influence
    IN  /\ influence \in {"+", "-"}
        /\ IF Missing(cell)
           THEN influence = "+" /\ (stdout # << >>) = missing_warns
           ELSE IF TextOf(cell) \in positive
           THEN influence = "+" /\ stdout = << >>
           ELSE IF TextOf(cell) \in negative
           THEN influence = "-" /\ stdout = << >>
           ELSE influence = "+" /\ stdout = <<TextOf(cell)>>

\* C14 as stated: "+" for "+", "positive", "pos", "-" for "-", "negative",
\* "neg"; every other value, unrecognised text or a missing cell, becomes "+"
\* with a warning; no influence value fails the run or drops the row.
C14_AsStated ==
    /\ TableAnalysed /\ FirstRowNamed => CausalAnalysed
    /\ CausalAnalysed => InfluenceFollows(EnglishPositive, EnglishNegative, TRUE)

\* C14: the influence sign, read as str(value).strip(), is normalised to "+"
\* for "+", "positive", "pos" and the Russian word for positive, and to "-"
\* for "-", "negative", "neg" and the Russian word for negative; a missing
\* cell becomes "+" without a warning; every other value becomes "+" and a
\* warning naming it is printed; no influence value fails the run or drops
\* the row, and every link has influence "+" or "-".
C14_InfluenceNormalised ==
    /\ TableAnalysed /\ FirstRowNamed => CausalAnalysed
    /\ CausalAnalysed =>
          InfluenceFollows(EnglishPositive \cup RussianPositive,
                           EnglishNegative \cup RussianNegative, FALSE)

\* a row analysed whose influence cell is the Russian word for negative: its
\* link has influence "-" and nothing was printed
C14_Witness ==
    /\ CausalAnalysed
    /\ RowCell(1, COL_INFLUENCE).type = "str"
    /\ RowCell(1, COL_INFLUENCE).s \in RussianNegative
    /\ CA.links[1].influence = "-"
    /\ stdout = << >>

\* a row analysed whose influence cell is missing: "+" and nothing printed
C14_MissingWitness ==
    /\ CausalAnalysed
    /\ Missing(RowCell(1, COL_INFLUENCE))
    /\ CA.links[1].influence = "+"
    /\ stdout = << >>

\* two strings that differ in the case of their letters at most
SameIgnoringCase(xs, ys) ==
    /\ Len(xs) = Len(ys)
    /\ \A i \in DOMAIN xs :
          \/ xs[i] = ys[i]
          \/ \E k \in DOMAIN UpperChars :
                {xs[i], ys[i]} = {UpperChars[k], LowerChars[k]}

\* "true", "yes", "1" and the Russian words for yes and for include
AffirmativeWords ==
    {<<"t", "r", "u", "e">>, <<"y", "e", "s">>, <<"1">>, Cyr(<<"d", "a">>),
     Cyr(<<"v", "k", "l", "yu", "ch", "i", "t", "soft">>)}

\* C15: include_in_cld of the link of a row is the inclusion cell itself
\* when that is a boolean; for a string it is true exactly when the string,
\* compared case-insensitively, is one of the affirmative words; for a
\* number it is true exactly when the number is not zero; and it is true
\* when the inclusion column is absent or the cell is missing.
C15_Inclusion ==
    CausalAnalysed =>
        LET include_in_cld == CA.links[1].include_in_cld
            cell == RowCell(1, COL_INCLUDE)
        IN  IF ~InRow(df.columns, COL_INCLUDE) THEN include_in_cld
            ELSE IF Missing(cell) THEN include_in_cld
            ELSE IF cell.type = "bool" THEN include_in_cld = cell.b
            ELSE IF cell.type = "str"
            THEN include_in_cld =
                    (\E word \in AffirmativeWords : SameIgnoringCase(cell.s, word))
            ELSE IF cell.type \in {"num", "npint"} THEN include_in_cld = (cell.n # 0)
            ELSE TRUE

\* the same for every table but those whose columns all hold integers
C15_InclusionOfPythonValues == df \notin IntegerTables => C15_Inclusion

\* a row analysed whose inclusion cell is an affirmative word in capitals
C15_Witness ==
    /\ CausalAnalysed
    /\ RowCell(1, COL_INCLUDE) = StrCell(<<"CYR:D", "CYR:A">>)
    /\ CA.links[1].include_in_cld

\* a row of a table of integer columns analysed: its inclusion cell is 0 and
\* its link is included
C15_ZeroIncluded ==
    /\ CausalAnalysed
    /\ RowCell(1, COL_INCLUDE) = NpInt(0)
    /\ CA.links[1].include_in_cld

\* C17: analyze_causal_links_from_dataframe raises CLDValidationError, and
\* returns nothing, when a required column is absent, when the table has no
\* rows, and when no row has a named source and target; and whatever
\* exception the processing raises reaches the caller as CLDValidationError.
C17_TableFailures ==
    TableAnalysed =>
        /\ (\/ ~(required_columns \subseteq Range(df.columns))
            \/ df.rows = << >>
            \/ \A i \in DOMAIN df.rows : ~RowProducesLink(i))
           => error = Some("CLDValidationError") /\ ~CausalAnalysed
        /\ error # None => error = Some("CLDValidationError") /\ ~CausalAnalysed

\* a table with the required columns and a row analysed, whose source
\* label is carried by two columns: the ValueError of the truth test of a
\* Series has reached the caller as CLDValidationError
C17_Witness ==
    /\ required_columns \subseteq Range(df.columns)
    /\ df.rows # << >>
    /\ RowCell(1, COL_SOURCE) = Series
    /\ error = Some("CLDValidationError")
    /\ ~CausalAnalysed

\* C18: in manual mode statistics["total_rows_processed"] is the number of
\* rows of the input table, before any row is filtered out.
C18_TotalRowsProcessed ==
    CausalAnalysed => CA.statistics.total_rows_processed = Len(df.rows)

\* what the statistics hold instead: the number of links, that is of the
\* rows that passed the filter
C18_RowsAfterFiltering ==
    CausalAnalysed => CA.statistics.total_rows_processed = Len(KeptRows)

\* a table of two rows analysed, one of them without a source: one row
\* counted
C18_RowLost ==
    /\ CausalAnalysed
    /\ Len(df.rows) = 2
    /\ Missing(RowCell(1, COL_SOURCE))
    /\ CA.statistics.total_rows_processed = 1

\* the numbers of the links of the analysis that are included, and of those
\* with an influence
IncludedLinks == {k \in DOMAIN CA.links : CA.links[k].include_in_cld}
IncludedWith(influence) == {k \in IncludedLinks : CA.links[k].influence = influence}

\* C19: in both modes the statistics of a CausalAnalysis hold the number of
\* its variables, the number of its included links, the numbers of included
\* links with influence "+" and with influence "-", and the number of its
\* feedback loops; so positive_links + negative_links = links, and an
\* excluded link is counted in none of the three.
C19_Statistics ==
    CausalAnalysed =>
        /\ CA.statistics.variables = Cardinality(CA.variables)
        /\ CA.statistics.links = Cardinality(IncludedLinks)
        /\ CA.statistics.positive_links = Cardinality(IncludedWith("+"))
        /\ CA.statistics.negative_links = Cardinality(IncludedWith("-"))
        /\ CA.statistics.loops = Len(CA.feedback_loops)
        /\ CA.statistics.positive_links + CA.statistics.negative_links
              = CA.statistics.links

\* a table analysed into an excluded link with "+" and an included link
\* with "-": one link counted, a negative one
C19_Witness ==
    /\ CausalAnalysed
    /\ CA.source_type = "manual"
    /\ Len(CA.links) = 2
    /\ ~CA.links[1].include_in_cld /\ CA.links[1].influence = "+"
    /\ CA.links[2].include_in_cld /\ CA.links[2].influence = "-"
    /\ CA.statistics.links = 1
    /\ CA.statistics.positive_links = 0
    /\ CA.statistics.negative_links = 1

\* operations analysed into links that form a loop
C19_AutoWitness ==
    /\ CausalAnalysed
    /\ CA.source_type = "auto"
    /\ CA.statistics.links = Len(CA.links)
    /\ CA.statistics.loops > 0

----------------------------------------------------------------------------
(* Loop detection on a link list *)

\* number of links automatic mode hands to find_feedback_loops
MaxLinks == 4

\* number of accepted rows of a manual link table
MaxRows == 3

\* the variables the links connect
Variables == {"a", "b", "c"}

InitLoops ==
    /\ operations = << >>
    /\ choices = DefaultChoices
    /\ analysis_data = None
    /\ causal_analysis = None
    /\ error = None
    /\ links = << >>
    /\ feedback_loops = None
    /\ counts = [operations |-> 0, merge_points |-> 0, split_points |-> 0,
                 critical_points |-> 0]
    /\ score = 0
    /\ df = EmptyTable
    /\ stdout = << >>
    /\ heap = NoHeap
    /\ engine = NewEngine
    /\ gui = NewGui
    /\ call = None

\* automatic mode, lines 37-48: the links of one more operation, which has
\* the one input source and the one output target
AddLink ==
    /\ feedback_loops = None
    /\ Len(links) < MaxLinks
    /\ \E source \in Variables, target \in Variables :
          links' = links \o auto_links_of_op(
                      [name |-> OpNames[Len(links) + 1],
                       inputs |-> <<source>>, outputs |-> <<target>>], 1, 1)
    /\ UNCHANGED <<operations, choices, analysis_data, causal_analysis, error,
                   feedback_loops, counts, score, df, stdout, others>>

\* manual mode, lines 111-119: links.append(CausalLink(..., include_in_cld=...)),
\* for a row whose inclusion cell decides either way
AddRowLink ==
    /\ feedback_loops = None
    /\ Len(links) < MaxRows
    /\ \E source \in Variables, target \in Variables, include_in_cld \in BOOLEAN :
          links' = Append(links,
                      CausalLink(source, target, "+", None, include_in_cld, ""))
    /\ UNCHANGED <<operations, choices, analysis_data, causal_analysis, error,
                   feedback_loops, counts, score, df, stdout, others>>

\* lines 51 and 129: feedback_loops = find_feedback_loops(links)
FindFeedbackLoops ==
    /\ feedback_loops = None
    /\ feedback_loops' = Some(find_feedback_loops(links))
    /\ UNCHANGED <<operations, choices, analysis_data, causal_analysis, error, links,
                   counts, score, df, stdout, others>>

NextLoops == AddLink \/ FindFeedbackLoops

\* find_feedback_loops on the links of automatic mode
SpecLoops == InitLoops /\ [][NextLoops]_vars

NextRowLoops == AddRowLink \/ FindFeedbackLoops

\* find_feedback_loops on the links of a manual table
SpecRowLoops == InitLoops /\ [][NextRowLoops]_vars

----------------------------------------------------------------------------
(* Properties of find_feedback_loops *)

Searched == feedback_loops # None
Loops == feedback_loops[1]

\* the pairs (u, v) with an included link from u to v
Edges ==
    {<<links[i].source, links[i].target>> :
        i \in {j \in DOMAIN links : links[j].include_in_cld}}

Edge(u, v) == <<u, v>> \in Edges

Distinct(xs) == \A i, j \in DOMAIN xs : xs[i] = xs[j] => i = j

\* the successor of position i around xs
After(xs, i) == xs[(i % Len(xs)) + 1]

\* xs is a directed cycle of the included links through Len(xs) >= 2 variables
IsCycle(xs) ==
    /\ Len(xs) >= 2
    /\ Distinct(xs)
    /\ \A i \in DOMAIN xs : Edge(xs[i], After(xs, i))

\* the cycles among the pairs E that begin with path, a list of distinct
\* variables whose first is the smallest: path itself when a pair closes it,
\* and the cycles of each path that extends it by one pair
RECURSIVE CyclesFrom(_, _)
CyclesFrom(path, E) ==
    LET last == path[Len(path)]
        next == {v \in Variables : /\ <<last, v>> \in E
                                   /\ v \notin Range(path)
                                   /\ Rank(path[1]) < Rank(v)}
    IN  (IF Len(path) >= 2 /\ <<last, path[1]>> \in E THEN {path} ELSE {})
        \cup UNION {CyclesFrom(Append(path, v), E) : v \in next}

\* the cycles of the included links, each once, written from its smallest name
Cycles == LET E == Edges IN UNION {CyclesFrom(<<v>>, E) : v \in Variables}

IsRotationOf(xs, ys) == \E k \in DOMAIN ys : xs = Rotate(ys, k)

\* C8: every loop returned is a cycle of the included links: at least two
\* entries, all distinct, each followed by the target of an included link
\* from it, the last by the first.  So a self-loop is never reported and a
\* link on no cycle yields no loop.
C8_LoopsAreCycles ==
    Searched => \A k \in DOMAIN Loops : IsCycle(Loops[k])

\* a cycle is reported although the list also holds an included self-loop and
\* an included link that lies on no cycle
C8_Witness ==
    /\ Searched
    /\ Loops # << >>
    /\ \E v \in Variables : Edge(v, v)
    /\ \E u, v \in Variables :
          /\ u # v
          /\ Edge(u, v)
          /\ \A c \in Cycles : ~\E i \in DOMAIN c : c[i] = u /\ After(c, i) = v

\* C9: a loop is returned iff the included links hold a directed cycle
\* through two or more variables; and when they hold exactly one, exactly one
\* loop is returned, which lists that cycle in cyclic order, whatever the
\* order of the links and whichever other links the list holds.
C9_FindsTheCycle ==
    Searched =>
        LET cs == Cycles IN
        /\ (Loops # << >>) <=> (cs # {})
        /\ Cardinality(cs) = 1 =>
              /\ Len(Loops) = 1
              /\ \A c \in cs : Len(Loops[1]) = Len(c) /\ IsRotationOf(Loops[1], c)

\* the only cycle has length 3, and a fourth included link lies on no cycle
C9_Witness ==
    /\ Searched
    /\ Cardinality(Cycles) = 1
    /\ \A c \in Cycles : Len(c) = 3
    /\ Len(Loops) = 1
    /\ \E i \in DOMAIN links : links[i].include_in_cld /\ links[i].source = links[i].target

IncludedOnly(ls) == SelectSeq(ls, LAMBDA l : l.include_in_cld)

\* C10: only the included links take part: the result is that of the list
\* without its excluded links, and no loop steps along a pair of variables
\* that only an excluded link connects.
C10_ExcludedLinksIgnored ==
    Searched =>
        /\ Loops = find_feedback_loops(IncludedOnly(links))
        /\ \A k \in DOMAIN Loops : \A i \in DOMAIN Loops[k] :
              \E j \in DOMAIN links :
                 /\ links[j].include_in_cld
                 /\ links[j].source = Loops[k][i]
                 /\ links[j].target = After(Loops[k], i)

\* the excluded link would close the only cycle: with it excluded no loop is
\* returned
C10_Witness ==
    /\ Searched
    /\ Loops = << >>
    /\ \E i \in DOMAIN links :
          /\ ~links[i].include_in_cld
          /\ find_feedback_loops([links EXCEPT ![i].include_in_cld = TRUE]) # << >>

\* C11: every returned loop starts with its smallest variable name, and no
\* two entries of the returned list are equal or rotations of one another.
C11_NormalisedAndDistinct ==
    Searched =>
        /\ \A k \in DOMAIN Loops : Loops[k][1] = MinOf(Loops[k])
        /\ \A k, l \in DOMAIN Loops : IsRotationOf(Loops[k], Loops[l]) => k = l

\* the traversal enters the cycle at a variable that is not its smallest and
\* closes it twice, along two equal links; the loop is listed once, from its
\* smallest variable
C11_Witness ==
    /\ Searched
    /\ Len(Loops) = 1
    /\ links[1].source \in Range(Loops[1])
    /\ links[1].source # Loops[1][1]
    /\ \E i, j \in DOMAIN links :
          /\ i # j
          /\ links[i].source = links[j].source
          /\ links[i].target = links[j].target
          /\ links[i].target = links[1].source

\* some returned loop lists the cycle c
Returned(c) == \E k \in DOMAIN Loops : IsRotationOf(Loops[k], c)

\* C12: the returned loops are cycles of the included links but need not be
\* all of them; a cycle that is not returned shares a variable with a cycle
\* that is, the variable having been explored for that one already.
C12_MissesOnlySharedCycles ==
    Searched =>
        /\ \A k \in DOMAIN Loops : \E c \in Cycles : IsRotationOf(Loops[k], c)
        /\ \A c \in Cycles :
              ~Returned(c) =>
                 \E k \in DOMAIN Loops : Range(Loops[k]) \cap Range(c) # {}

\* a variable lies on two cycles and one of the two is not returned
C12_Witness ==
    /\ Searched
    /\ \E c, d \in Cycles :
          /\ c # d
          /\ Range(c) \cap Range(d) # {}
          /\ Returned(d)
          /\ ~Returned(c)


\* the link lists that are permutations of the list searched
Reorderings ==
    {[k \in DOMAIN links |-> links[p[k]]] : p \in ListsOfSet(DOMAIN links)}

\* C20: two link lists that are permutations of one another give the same
\* set of loops, so that two runs whose links come in a different order
\* agree on feedback_loops and on statistics["loops"].
C20_OrderIndependent ==
    Searched =>
        \A ls \in Reorderings : Range(find_feedback_loops(ls)) = Range(Loops)

\* the part about the number of loops alone
C20_SameNumberOfLoops ==
    Searched =>
        \A ls \in Reorderings : Len(find_feedback_loops(ls)) = Len(Loops)

\* a search that returned one loop where another order of the same links
\* returns a different one
C20_OrderMatters ==
    /\ Searched
    /\ Len(Loops) = 1
    /\ \E ls \in Reorderings :
          /\ Len(find_feedback_loops(ls)) = 1
          /\ find_feedback_loops(ls) # Loops

\* the traversal find_feedback_loops made of the links
Traversal == traverse(links)

IncludedLinkIndexes == {i \in DOMAIN links : links[i].include_in_cld}

\* the variables with an outgoing included link: the keys of graph
Sources == {links[i].source : i \in IncludedLinkIndexes}

\* C25: find_feedback_loops terminates on every finite link list and
\* expands each variable at most once per call: a variable already explored
\* is never explored again, and reaching a variable on the current path ends
\* that branch.  So the call returns after at most one call of dfs for each
\* key of the graph and one for each included link.
C25_ExpandedOnce ==
    Searched =>
        /\ Loops = Traversal.loops
        /\ Distinct(Traversal.expanded)
        /\ Range(Traversal.expanded) = Traversal.visited
        /\ Traversal.calls <= Cardinality(Sources) + Cardinality(IncludedLinkIndexes)

\* a call that has found a loop, has reached an explored variable a second
\* time, over two links to it, and has explored every variable
C25_Witness ==
    /\ Searched
    /\ Loops # << >>
    /\ \E i, j \in IncludedLinkIndexes :
          /\ i # j
          /\ links[i].target = links[j].target
          /\ links[i].source # links[j].source
          /\ links[i].target \in Traversal.visited
    /\ Traversal.visited = Variables

----------------------------------------------------------------------------
(* Loading a sheet, and constructing an Operation *)

\* rows of a sheet
MaxSheetRows == 2

SheetColumns == <<COL_OPERATION, COL_INPUTS, COL_OUTPUT>>

\* the cells of the column "Операция": empty, a name, blanks only
NameCells == {NaN, StrCell(<<"A">>), StrCell(<<" ">>)}

\* the cells of the column "Входы": empty, "a", the placeholder alone,
\* "a; " with the placeholder, and " b;b"
InputCells ==
    {NaN, StrCell(<<"a">>), StrCell(<<Dash>>),
     StrCell(<<"a", ";", " ", Dash>>), StrCell(<<" ", "b", ";", "b">>)}

\* the cells of the column "Выход": empty, "b", and the placeholder with ";b"
OutputCells == {NaN, StrCell(<<"b">>), StrCell(<<Dash, ";", "b">>)}

\* the names and items a caller may hand to Operation(...)
RawNames == {<<"A">>, <<" ">>, <<"B", " ">>}
RawItems == {<<"a">>, <<" ", "a">>, <<Dash>>, << >>, <<" ">>}
RawLists == UNION {[1..n -> RawItems] : n \in 0..2}

InitSheet == InitTable({[columns |-> SheetColumns, rows |-> << >>]})

\* one more row of the sheet that is read
AddSheetRow ==
    /\ call = None
    /\ Len(df.rows) < MaxSheetRows
    /\ \E name \in NameCells, inputs \in InputCells, outputs \in OutputCells :
          df' = [df EXCEPT !.rows = Append(@, <<name, inputs, outputs>>)]
    /\ UNCHANGED <<operations, choices, analysis_data, causal_analysis, error, links,
                   feedback_loops, counts, score, stdout, others>>

\* operations = collect_operations(df, choices), by one of the loaders
CollectOperations(loader) ==
    /\ call = None
    /\ \E r \in collect_operations(loader, df) :
          /\ operations' = (IF r.raised = None THEN r.value ELSE operations)
          /\ error' = r.raised
          /\ stdout' = r.printed
    /\ call' = Some([function |-> "collect_operations", loader |-> loader])
    /\ UNCHANGED <<choices, analysis_data, causal_analysis, links, feedback_loops,
                   counts, score, df, heap, engine, gui>>

\* Operation(name=..., inputs=..., outputs=...) of the root models.py, called
\* by a caller that has loaded no sheet
ConstructValidated ==
    /\ call = None
    /\ df.rows = << >>
    /\ \E name \in RawNames, inputs \in RawLists, outputs \in RawLists :
          LET r == NewOperation("root", {"name", "inputs", "outputs"},
                                name, inputs, outputs)
          IN  /\ operations' = (IF r.raised = None THEN <<r.value>> ELSE operations)
              /\ error' = r.raised
    /\ call' = Some([function |-> "Operation", loader |-> "root"])
    /\ UNCHANGED <<choices, analysis_data, causal_analysis, links, feedback_loops,
                   counts, score, df, stdout, heap, engine, gui>>

NextSheet ==
    \/ AddSheetRow
    \/ \E loader \in Loaders : CollectOperations(loader)
    \/ ConstructValidated

SpecSheet == InitSheet /\ [][NextSheet]_vars

----------------------------------------------------------------------------
(* Properties of Operation and of collect_operations *)

Called(function) == call # None /\ call[1].function = function
CalledBy(function, loader) == Called(function) /\ call[1].loader = loader

ItemsOf(op) == Range(op.inputs) \cup Range(op.outputs)

\* C22: after an Operation has been constructed, directly or by
\* collect_operations, no element of its inputs or outputs is the empty
\* string, consists of whitespace only or is the placeholder: every such
\* token has been dropped, wherever it stood in a ";"-separated cell.
C22_NoEmptyItems ==
    \A k \in DOMAIN operations :
        \A item \in ItemsOf(operations[k]) :
            item # << >> /\ Strip(item) # << >> /\ item # <<Dash>>

\* the constructor has kept a placeholder it was given
C22_KeptByConstructor ==
    /\ CalledBy("Operation", "root")
    /\ \E k \in DOMAIN operations : <<Dash>> \in ItemsOf(operations[k])

\* a loader has kept the placeholder of a cell of several tokens
C22_KeptByLoader ==
    /\ Called("collect_operations")
    /\ \E k \in DOMAIN operations : <<Dash>> \in ItemsOf(operations[k])

\* what the constructor does drop: empty and whitespace-only items
C22_NoBlankItems ==
    \A k \in DOMAIN operations :
        \A item \in ItemsOf(operations[k]) : item # << >> /\ Strip(item) # << >>

\* C23: after an Operation has been constructed, neither its inputs nor its
\* outputs contain an item name twice, names that are equal after trimming
\* counting as the same.
C23_NoDuplicates ==
    \A k \in DOMAIN operations :
        /\ Distinct([j \in DOMAIN operations[k].inputs |-> Strip(operations[k].inputs[j])])
        /\ Distinct([j \in DOMAIN operations[k].outputs |-> Strip(operations[k].outputs[j])])

\* the constructor has kept an item it was given twice
C23_KeptTwice ==
    /\ CalledBy("Operation", "root")
    /\ \E k \in DOMAIN operations : ~ Distinct(operations[k].inputs)

\* the lists a loader builds name no item twice
C23_LoadedOnce == Called("collect_operations") => C23_NoDuplicates

\* the rows collect_operations does not skip that have no operation name
RowsWithoutName ==
    SelectSeq(df.rows,
              LAMBDA row : /\ Cell(df.columns, row, COL_OPERATION).type = "nan"
                           /\ Cell(df.columns, row, COL_OUTPUT).type # "nan")

\* the items of a cell: none for an empty cell or a cell of the placeholder
ItemsOfCell(cell) ==
    IF cell.type = "nan" \/ Strip(ToStr(cell)) = <<Dash>> THEN {}
    ELSE {Strip(piece) : piece \in Range(Split(ToStr(cell)))} \ {<< >>}

OperationsNamed(name) == {k \in DOMAIN operations : operations[k].name = name}

\* the rows without name have become the one operation "Операция_0"
MergedIntoOne ==
    /\ Cardinality(OperationsNamed(FallbackName(0))) = 1
    /\ \A k \in OperationsNamed(FallbackName(0)) :
          /\ Range(operations[k].inputs) =
                UNION {ItemsOfCell(Cell(df.columns, row, COL_INPUTS)) :
                          row \in Range(RowsWithoutName)}
          /\ Range(operations[k].outputs) =
                UNION {ItemsOfCell(Cell(df.columns, row, COL_OUTPUT)) :
                          row \in Range(RowsWithoutName)}

\* C30: collect_operations gives every row it does not skip and that has no
\* operation name the same fallback name "Операция_0", so all such rows are
\* merged into a single operation, whose inputs and outputs are the union
\* of theirs.
C30_RowsWithoutNameMerged ==
    Called("collect_operations") /\ RowsWithoutName # << >> => MergedIntoOne

\* the v2 loader does so
C30_MergedByV2 ==
    CalledBy("collect_operations", "v2") /\ RowsWithoutName # << >> => MergedIntoOne

\* two rows without name, merged by the v2 loader
C30_TwoRowsMerged ==
    /\ CalledBy("collect_operations", "v2")
    /\ Len(RowsWithoutName) >= 2
    /\ MergedIntoOne

\* the root loader returns no operation for rows without name: the
\* constructor has raised, and the exception was printed
C30_RootLosesRows ==
    /\ CalledBy("collect_operations", "root")
    /\ RowsWithoutName # << >>
    /\ operations = << >>
    /\ error = None
    /\ stdout # << >>

\* the v4 loader raises for rows without name
C30_V4Raises ==
    /\ CalledBy("collect_operations", "v4")
    /\ RowsWithoutName # << >>
    /\ error = Some("TypeError")

----------------------------------------------------------------------------
(* core_engine.py: BusinessProcessEngine.  engine holds the three fields;
   call holds the method called last, the choices it read, what it returned
   and, for export_diagram, what it handed to the exporters.  The loaders
   are outside the engine: what they return is an input of the call. *)

\* models.py 24: the formats Choices accepts
valid_formats ==
    {"md", "html_mermaid", "html_interactive", "cld_mermaid", "cld_interactive"}

\* what load_and_validate_data followed by collect_operations yields: an
\* exception, the empty mapping, or the one operation of a sheet
LoadedOperations ==
    {Raise("DataValidationError"), Value(<< >>)}
    \cup {Value(<<[name |-> "A", inputs |-> <<io[1]>>, outputs |-> <<io[2]>>]>>) :
             io \in {p \in Items \X Items : p[1] # p[2]}}

\* what load_cld_data yields: an exception, or the table of the sheet
LoadedTables ==
    {Raise("DataValidationError"),
     Value([columns |-> <<COL_SOURCE, COL_TARGET, COL_INFLUENCE>>,
            rows |-> <<<<StrCell(<<"a">>), StrCell(<<"b">>), StrCell(<<"+">>)>>>>])}

\* not self.operations
no_operations(e) == e.operations = None \/ e.operations[1] = << >>

\* the engine after a method, and what the method returned
AfterMethod(e, result) == [engine |-> e, result |-> result]

\* lines 30-46; the assignment of line 37 comes before the test of line 38
load_business_processes(e, loaded) ==
    IF loaded.raised # None THEN AfterMethod(e, FALSE)
    ELSE LET e1 == [e EXCEPT !.operations = Some(loaded.value)]
         IN  IF no_operations(e1) THEN AfterMethod(e1, FALSE) ELSE AfterMethod(e1, TRUE)

\* lines 48-60
analyze_business_processes(e, ch) ==
    IF no_operations(e) THEN AfterMethod(e, FALSE)
    ELSE AfterMethod([e EXCEPT !.analysis_data =
                      Some(analyse_network(e.operations[1], ch))], TRUE)

\* line 65: the test that selects the branch
takes_table(ch) == ch.cld_source_type = "manual" /\ ch.cld_sheet_name # ""

\* lines 62-82; "mode" is the branch that ran
load_causal_analysis(e, ch, loaded) ==
    IF takes_table(ch)
    THEN IF loaded.raised # None
         THEN [engine |-> e, result |-> FALSE, mode |-> "manual"]
         ELSE LET r == analyze_causal_links_from_dataframe(loaded.value)
              IN  IF r.raised # None
                  THEN [engine |-> e, result |-> FALSE, mode |-> "manual"]
                  ELSE [engine |-> [e EXCEPT !.causal_analysis = r.value],
                        result |-> r.value # None, mode |-> "manual"]
    ELSE IF no_operations(e)
    THEN [engine |-> e, result |-> FALSE, mode |-> "auto"]
    ELSE LET r == analyze_causal_links_from_operations(e.operations[1])
         IN  IF r.raised # None
             THEN [engine |-> e, result |-> FALSE, mode |-> "auto"]
             ELSE [engine |-> [e EXCEPT !.causal_analysis = r.value],
                   result |-> r.value # None, mode |-> "auto"]

\* lines 84-159: what export_diagram hands to the exporters, or None when
\* it returns [] before
export_diagram(e, ch) ==
    IF ch.output_format \in {"cld_mermaid", "cld_interactive"}
    THEN IF e.causal_analysis = None THEN None
         ELSE Some([output_format |-> ch.output_format,
                    causal_analysis |-> e.causal_analysis[1]])
    ELSE IF e.analysis_data = None \/ no_operations(e) THEN None
    ELSE IF ch.output_format \in {"md", "html_mermaid", "html_interactive"}
    THEN Some([output_format |-> ch.output_format,
               operations |-> e.operations[1],
               analysis_data |-> e.analysis_data[1]])
    ELSE None

\* lines 200-204
reset(e) == [e EXCEPT !.operations = None, !.analysis_data = None,
                      !.causal_analysis = None]

NoCall == [function |-> "", result |-> FALSE, cld_source_type |-> "",
           cld_sheet_name |-> "", mode |-> "", exported |-> None]

kept == <<operations, choices, analysis_data, causal_analysis, error, links,
          feedback_loops, counts, score, df, stdout, heap, gui>>

LoadBusinessProcesses ==
    /\ \E loaded \in LoadedOperations :
          LET r == load_business_processes(engine, loaded)
          IN  /\ engine' = r.engine
              /\ call' = Some([NoCall EXCEPT !.function = "load_business_processes",
                                             !.result = r.result])
    /\ UNCHANGED kept

AnalyzeBusinessProcesses ==
    /\ LET r == analyze_business_processes(engine, DefaultChoices)
       IN  /\ engine' = r.engine
           /\ call' = Some([NoCall EXCEPT !.function = "analyze_business_processes",
                                          !.result = r.result])
    /\ UNCHANGED kept

LoadCausalAnalysis ==
    /\ \E cld_source_type \in {"auto", "manual"}, cld_sheet_name \in {"", "CLD"},
          loaded \in LoadedTables :
          LET r == load_causal_analysis(engine,
                      [cld_source_type |-> cld_source_type,
                       cld_sheet_name |-> cld_sheet_name], loaded)
          IN  /\ engine' = r.engine
              /\ call' = Some([NoCall EXCEPT !.function = "load_causal_analysis",
                                             !.result = r.result,
                                             !.cld_source_type = cld_source_type,
                                             !.cld_sheet_name = cld_sheet_name,
                                             !.mode = r.mode])
    /\ UNCHANGED kept

ExportDiagram ==
    /\ \E output_format \in valid_formats :
          LET exported == export_diagram(engine, [output_format |-> output_format])
          IN  call' = Some([NoCall EXCEPT !.function = "export_diagram",
                                          !.result = exported # None,
                                          !.exported = exported])
    /\ UNCHANGED engine
    /\ UNCHANGED kept

Reset ==
    /\ engine' = reset(engine)
    /\ call' = Some([NoCall EXCEPT !.function = "reset"])
    /\ UNCHANGED kept

NextEngine ==
    \/ LoadBusinessProcesses
    \/ AnalyzeBusinessProcesses
    \/ LoadCausalAnalysis
    \/ ExportDiagram
    \/ Reset

\* any sequence of calls on one engine
SpecEngine == InitNet /\ [][NextEngine]_vars

----------------------------------------------------------------------------
(* Properties of BusinessProcessEngine *)

LastCall == call[1]

C26_StaleAnalysisExported ==
    /\ Called("export_diagram")
    /\ LastCall.exported # None
    /\ LastCall.exported[1].output_format = "md"
    /\ LastCall.exported[1].analysis_data #
          analyse_network(LastCall.exported[1].operations, DefaultChoices)

\* right after analyze_business_processes has returned True the analysis is
\* the one of the operations held
C26_FreshAfterAnalyze ==
    Called("analyze_business_processes") /\ LastCall.result =>
        engine.analysis_data =
           Some(analyse_network(engine.operations[1], DefaultChoices))

\* C27: load_causal_analysis runs the mode the caller selected, "manual" on
\* the link table and "auto" on the operations, and whenever it returns
\* True the stored CausalAnalysis has the source_type selected.
C27_SelectedMode ==
    Called("load_causal_analysis") =>
        /\ LastCall.mode = LastCall.cld_source_type
        /\ LastCall.result =>
              engine.causal_analysis[1].source_type = LastCall.cld_source_type

\* "manual" selected without a sheet name: the call has built the links
\* from the operations and returned True
C27_ManualBuiltFromOperations ==
    /\ Called("load_causal_analysis")
    /\ LastCall.cld_source_type = "manual"
    /\ LastCall.result
    /\ engine.causal_analysis[1].source_type = "auto"

\* the mode selected runs whenever "manual" comes with a sheet name
C27_ModeWithSheetName ==
    Called("load_causal_analysis")
    /\ (LastCall.cld_source_type = "manual" => LastCall.cld_sheet_name # "") =>
        /\ LastCall.mode = LastCall.cld_source_type
        /\ LastCall.result =>
              engine.causal_analysis[1].source_type = LastCall.cld_source_type

\* C28: a call of load_business_processes that returns False leaves
\* operations, analysis_data and causal_analysis as they were.
C28_FailedLoadKeepsState ==
    [][LoadBusinessProcesses /\ ~ call'[1].result => engine' = engine]_vars

\* a load that returned False has replaced the operations by the empty
\* mapping; the analysis of the former ones is still held
C28_OperationsReplaced ==
    /\ Called("load_business_processes")
    /\ ~ LastCall.result
    /\ engine.operations = Some(<< >>)
    /\ engine.analysis_data # None

\* what a failed load does keep: analysis_data and causal_analysis
C28_FailedLoadKeepsAnalyses ==
    [][LoadBusinessProcesses /\ ~ call'[1].result =>
          /\ engine'.analysis_data = engine.analysis_data
          /\ engine'.causal_analysis = engine.causal_analysis]_vars

----------------------------------------------------------------------------
(* business_process_generator_v4/gui: SetupPanel.generate_diagram, the
   GenerationThread it starts and MainWindow.on_generation_complete.
   gui.threads holds the threads started, in order; the last one is
   self.thread.  The content of a generation is written as its number.
   gui.events holds the finished signals emitted and not yet delivered to
   the main thread; gui.file is the content of temp_diagram.md. *)

\* generations started in one session
MaxGenerations == 3

\* the last thread started is the one self.thread refers to
Referenced(k) == k = Len(gui.threads)

\* a GenerationThread whose run() returns while self.thread refers to
\* another thread loses its last reference: the QThread is destroyed while
\* it has not finished, which ends the process or not
Destroyed(k) == IF Referenced(k) THEN {FALSE} ELSE BOOLEAN

\* setup_panel.py 161-181: self.thread = GenerationThread(...);
\* self.thread.finished.connect(...); self.thread.start()
GenerateDiagram ==
    /\ ~ gui.crashed
    /\ Len(gui.threads) < MaxGenerations
    /\ gui' = [gui EXCEPT !.threads =
                  Append(@, [pc |-> "run",
                             overlaps |-> \E k \in DOMAIN gui.threads :
                                             gui.threads[k].pc \in {"run", "written"}])]
    /\ UNCHANGED <<operations, choices, analysis_data, causal_analysis, error, links,
                   feedback_loops, counts, score, df, stdout, heap, engine, call>>

\* setup_panel.py 28-43: the data is loaded and analysed, the content
\* generated and written to temp_diagram.md
ThreadWrite(k) ==
    /\ ~ gui.crashed
    /\ gui.threads[k].pc = "run"
    /\ gui' = [gui EXCEPT !.threads[k].pc = "written", !.file = Some(k)]
    /\ UNCHANGED <<operations, choices, analysis_data, causal_analysis, error, links,
                   feedback_loops, counts, score, df, stdout, heap, engine, call>>

\* setup_panel.py 45: self.finished.emit(str(output_path), content), queued
\* for the main thread; run() returns
ThreadEmit(k) ==
    /\ ~ gui.crashed
    /\ gui.threads[k].pc = "written"
    /\ \E crashed \in Destroyed(k) :
          gui' = [gui EXCEPT !.threads[k].pc = "done",
                             !.events = Append(@, k),
                             !.crashed = crashed]
    /\ UNCHANGED <<operations, choices, analysis_data, causal_analysis, error, links,
                   feedback_loops, counts, score, df, stdout, heap, engine, call>>

\* setup_panel.py 29-31 and 47-48: the sheet is not valid, or an exception
\* is raised before the content is written (collect_operations raises for
\* every sheet that holds an operation); run() prints and returns
ThreadFail(k) ==
    /\ ~ gui.crashed
    /\ gui.threads[k].pc = "run"
    /\ \E crashed \in Destroyed(k) :
          gui' = [gui EXCEPT !.threads[k].pc = "failed", !.crashed = crashed]
    /\ UNCHANGED <<operations, choices, analysis_data, causal_analysis, error, links,
                   feedback_loops, counts, score, df, stdout, heap, engine, call>>

\* main_window.py 74-78: on_generation_complete(file_path, content), for
\* the signal emitted first
OnGenerationComplete ==
    /\ ~ gui.crashed
    /\ gui.events # << >>
    /\ gui' = [gui EXCEPT !.editor = Some(Head(gui.events)),
                          !.preview = Some(Head(gui.events)),
                          !.events = Tail(@)]
    /\ UNCHANGED <<operations, choices, analysis_data, causal_analysis, error, links,
                   feedback_loops, counts, score, df, stdout, heap, engine, call>>

NextGui ==
    \/ GenerateDiagram
    \/ \E k \in DOMAIN gui.threads : ThreadWrite(k)
    \/ \E k \in DOMAIN gui.threads : ThreadEmit(k)
    \/ \E k \in DOMAIN gui.threads : ThreadFail(k)
    \/ OnGenerationComplete

SpecGui == InitNet /\ [][NextGui]_vars

\* every thread has returned from run() and every signal is delivered
AllFinished ==
    /\ ~ gui.crashed
    /\ \A k \in DOMAIN gui.threads : gui.threads[k].pc \in {"done", "failed"}
    /\ gui.events = << >>

\* the generation started last
Latest == Len(gui.threads)

\* C29: when a generation was started while an earlier GenerationThread was
\* still running, then after the threads have finished the editor, the
\* preview and temp_diagram.md hold the content of the generation started
\* last, in whatever order the threads finished.
C29_LatestGenerationShown ==
    (/\ AllFinished
     /\ Latest >= 2
     /\ gui.threads[Latest].overlaps
     /\ \A k \in DOMAIN gui.threads : gui.threads[k].pc = "done")
    => /\ gui.editor = Some(Latest)
       /\ gui.preview = Some(Latest)
       /\ gui.file = Some(Latest)

\* both of two overlapping generations have written and emitted their
\* content, and the window and the file hold that of the earlier one
C29_EarlierGenerationShown ==
    /\ AllFinished
    /\ Latest = 2
    /\ gui.threads[2].overlaps
    /\ \A k \in DOMAIN gui.threads : gui.threads[k].pc = "done"
    /\ gui.editor = Some(1)
    /\ gui.preview = Some(1)
    /\ gui.file = Some(1)

\* the window and the file of two overlapping generations disagree
C29_FileOfOtherGeneration ==
    /\ AllFinished
    /\ Latest = 2
    /\ gui.threads[2].overlaps
    /\ \A k \in DOMAIN gui.threads : gui.threads[k].pc = "done"
    /\ gui.editor = Some(2)
    /\ gui.file = Some(1)

\* the process has ended while threads ran
C29_Crashed == gui.crashed

\* what does hold: the window shows the content whose signal was delivered
\* last, and editor and preview agree
C29_EditorAndPreviewAgree == gui.editor = gui.preview

----------------------------------------------------------------------------
(* Python float arithmetic: IEEE 754 binary64, round to nearest, ties to even.
   A natural number is a little-endian sequence of limbs below Base with no
   leading zero limb; a float is m * 2^e with m such a number.  All values
   of the score are non-negative and far from overflow and underflow. *)

Base == 32768
LimbBits == 15
Precision == 53

RECURSIVE Pow2(_)
Pow2(k) == IF k = 0 THEN 1 ELSE 2 * Pow2(k - 1)

RECURSIVE Trim(_)
Trim(n) ==
    IF n = << >> THEN n
    ELSE IF n[Len(n)] = 0 THEN Trim(SubSeq(n, 1, Len(n) - 1))
    ELSE n

RECURSIVE FromInt(_)
FromInt(i) == IF i = 0 THEN << >> ELSE <<i % Base>> \o FromInt(i \div Base)

RECURSIVE ToInt(_)
ToInt(n) == IF n = << >> THEN 0 ELSE n[1] + Base * ToInt(Tail(n))

RECURSIVE BitLenInt(_)
BitLenInt(i) == IF i = 0 THEN 0 ELSE 1 + BitLenInt(i \div 2)

BitLen(n) ==
    IF n = << >> THEN 0 ELSE LimbBits * (Len(n) - 1) + BitLenInt(n[Len(n)])

IsOdd(n) == n # << >> /\ n[1] % 2 = 1

\* n * d + carry, for d <= Base
RECURSIVE MulSmall(_, _, _)
MulSmall(n, d, carry) ==
    IF n = << >> THEN FromInt(carry)
    ELSE LET t == n[1] * d + carry
         IN  <<t % Base>> \o MulSmall(Tail(n), d, t \div Base)

RECURSIVE AddNat(_, _, _)
AddNat(a, b, carry) ==
    IF a = << >> /\ b = << >> THEN FromInt(carry)
    ELSE LET x == IF a = << >> THEN 0 ELSE a[1]
             y == IF b = << >> THEN 0 ELSE b[1]
             t == x + y + carry
         IN  <<t % Base>> \o AddNat(IF a = << >> THEN a ELSE Tail(a),
                                    IF b = << >> THEN b ELSE Tail(b),
                                    t \div Base)

RECURSIVE MulLimbs(_, _)
MulLimbs(a, b) ==
    IF b = << >> THEN << >>
    ELSE AddNat(MulSmall(a, b[1], 0), <<0>> \o MulLimbs(a, Tail(b)), 0)

MulNat(a, b) == Trim(MulLimbs(a, b))

\* quotient (untrimmed) and remainder of n by d, for 0 < d <= Base
RECURSIVE DivSmall(_, _)
DivSmall(n, d) ==
    IF n = << >> THEN [q |-> << >>, r |-> 0]
    ELSE LET hi == DivSmall(Tail(n), d)
             cur == hi.r * Base + n[1]
         IN  [q |-> <<cur \div d>> \o hi.q, r |-> cur % d]

ShiftLeft(n, k) ==
    Trim([i \in 1..(k \div LimbBits) |-> 0] \o MulSmall(n, Pow2(k % LimbBits), 0))

\* n \div 2^k, and whether a one bit was shifted out
ShiftRight(n, k) ==
    LET j == IF k \div LimbBits < Len(n) THEN k \div LimbBits ELSE Len(n)
        d == DivSmall(SubSeq(n, j + 1, Len(n)), Pow2(k % LimbBits))
    IN  [q |-> Trim(d.q),
         sticky |-> d.r # 0 \/ \E i \in 1..j : n[i] # 0]

RECURSIVE LeqNat(_, _)
LeqNat(a, b) ==
    IF Len(a) # Len(b) THEN Len(a) < Len(b)
    ELSE IF a = << >> THEN TRUE
    ELSE LET n == Len(a)
         IN  IF a[n] # b[n] THEN a[n] < b[n]
             ELSE LeqNat(SubSeq(a, 1, n - 1), SubSeq(b, 1, n - 1))

\* the float nearest to n * 2^e, ties to even
RoundFloat(n, e) ==
    IF BitLen(n) <= Precision THEN [m |-> n, e |-> e]
    ELSE LET k == BitLen(n) - Precision
             s == ShiftRight(n, k - 1)
             h == ShiftRight(s.q, 1).q
             up == IsOdd(s.q) /\ (s.sticky \/ IsOdd(h))
         IN  [m |-> IF up THEN Trim(AddNat(h, <<1>>, 0)) ELSE h, e |-> e + k]

\* float(i)
FloatOfInt(i) == [m |-> FromInt(i), e |-> 0]

\* a / b for ints 0 <= a, 0 < b: the correctly rounded quotient
GuardBits == 5 * LimbBits
FloatDiv(a, b) ==
    LET d == DivSmall(ShiftLeft(FromInt(a), GuardBits), b)
        n == AddNat(MulSmall(Trim(d.q), 2, 0),
                    IF d.r # 0 THEN <<1>> ELSE << >>, 0)
    IN  RoundFloat(Trim(n), 0 - GuardBits - 1)

FloatMul(x, y) == RoundFloat(MulNat(x.m, y.m), x.e + y.e)

FloatAdd(x, y) ==
    LET e == IF x.e < y.e THEN x.e ELSE y.e
    IN  RoundFloat(Trim(AddNat(ShiftLeft(x.m, x.e - e), ShiftLeft(y.m, y.e - e), 0)), e)

\* x < y
FloatLess(x, y) ==
    LET e == IF x.e < y.e THEN x.e ELSE y.e
    IN  ~LeqNat(ShiftLeft(y.m, y.e - e), ShiftLeft(x.m, x.e - e))

\* min(x, y): y only if it is smaller
FloatMin(x, y) == IF FloatLess(y, x) THEN y ELSE x

\* int(x), for x >= 0
Truncate(x) ==
    IF x.e >= 0 THEN ToInt(ShiftLeft(x.m, x.e))
    ELSE ToInt(ShiftRight(x.m, 0 - x.e).q)

----------------------------------------------------------------------------
(* analysis.py: get_process_complexity_score *)

\* the literals 0.3 and 0.2: the floats nearest to 3/10 and 2/10
weights ==
    [operations |-> FloatDiv(3, 10),
     merge_points |-> FloatDiv(2, 10),
     split_points |-> FloatDiv(2, 10),
     critical_points |-> FloatDiv(3, 10)]

max_operations == 50
max_merge == 10
max_split == 10
max_critical == 5

\* the largest counts scored here, each one past its ceiling
MaxOperations == 51
MaxMerge == 11
MaxSplit == 11
MaxCritical == 6

\* min(len(...) / max_..., 1.0)
normalized(count, max_expected) ==
    FloatMin(FloatDiv(count, max_expected), FloatOfInt(1))

\* the four products of total_score, tabulated by count
op_term ==
    [n \in 0..MaxOperations |->
        FloatMul(normalized(n, max_operations), weights.operations)]
merge_term ==
    [n \in 0..MaxMerge |->
        FloatMul(normalized(n, max_merge), weights.merge_points)]
split_term ==
    [n \in 0..MaxSplit |->
        FloatMul(normalized(n, max_split), weights.split_points)]
critical_term ==
    [n \in 0..MaxCritical |->
        FloatMul(normalized(n, max_critical), weights.critical_points)]

\* the sum, added left to right
total_score(cnt) ==
    FloatAdd(
        FloatAdd(
            FloatAdd(op_term[cnt.operations], merge_term[cnt.merge_points]),
            split_term[cnt.split_points]),
        critical_term[cnt.critical_points])

score_uncapped(total) == Truncate(FloatMul(total, FloatOfInt(10))) + 1
score_of_total(total) ==
    LET v == Truncate(FloatMul(total, FloatOfInt(10))) + 1
    IN  IF v < 10 THEN v ELSE 10

\* cnt holds len(operations) and the lengths of the three lists of
\* analysis_data.analysis
get_process_complexity_score(cnt) == score_of_total(total_score(cnt))

----------------------------------------------------------------------------
(* The score over growing counts *)

InitScore ==
    /\ operations = << >>
    /\ choices = DefaultChoices
    /\ analysis_data = None
    /\ causal_analysis = None
    /\ error = None
    /\ links = << >>
    /\ feedback_loops = None
    /\ counts = [operations |-> 0, merge_points |-> 0, split_points |-> 0,
                 critical_points |-> 0]
    /\ score = get_process_complexity_score(counts)
    /\ df = EmptyTable
    /\ stdout = << >>
    /\ heap = NoHeap
    /\ engine = NewEngine
    /\ gui = NewGui
    /\ call = None

Grow(field) ==
    /\ counts' = [counts EXCEPT ![field] = @ + 1]
    /\ score' = get_process_complexity_score(counts')
    /\ UNCHANGED <<operations, choices, analysis_data, causal_analysis, error,
                   links, feedback_loops, df, stdout, others>>

\* one more entry in operations
MoreOperations == counts.operations < MaxOperations /\ Grow("operations")

\* one more entry in analysis.merge_points
MoreMergePoints == counts.merge_points < MaxMerge /\ Grow("merge_points")

\* one more entry in analysis.split_points
MoreSplitPoints == counts.split_points < MaxSplit /\ Grow("split_points")

\* one more entry in analysis.critical_points
MoreCriticalPoints == counts.critical_points < MaxCritical /\ Grow("critical_points")

NextScore ==
    MoreOperations \/ MoreMergePoints \/ MoreSplitPoints \/ MoreCriticalPoints

SpecScore == InitScore /\ [][NextScore]_vars

\* C6: the score is an integer from 1 to 10, it is 1 when all four counts
\* are zero, and it never decreases when one of the four counts grows by one
\* with the other three fixed, beyond the ceilings 50/10/10/5 as well.
C6_ScoreRangeAndMonotone ==
    /\ [](/\ score \in 1..10
          /\ (\A f \in DOMAIN counts : counts[f] = 0) => score = 1)
    /\ [][score' >= score]_vars

\* all four counts have passed their ceilings and the score is at its cap
C6_Witness ==
    /\ counts.operations > max_operations
    /\ counts.merge_points > max_merge
    /\ counts.split_points > max_split
    /\ counts.critical_points > max_critical
    /\ score = 10

====
